---------------------------- MODULE Spec2Model ----------------------------
(***************************************************************************)
(* Big Store: the unified catalog (two PackageManager classes), the        *)
(* installation pipeline (InstallationManager) and the async execution     *)
(* substrate (AsyncRunner, TaskQueue), as state machines.                   *)
(*                                                                         *)
(* Each subsystem has its own next-state relation and specification; the   *)
(* variables of the other subsystems stay at their initial values.          *)
(***************************************************************************)
EXTENDS Naturals, Integers, Sequences, FiniteSets, TLC

(***************************************************************************)
(* Bounds of the model.                                                     *)
(***************************************************************************)
MaxCatalogCalls == 2     \* refresh_cache / get_all_apps calls on one PackageManager
MaxHostChanges == 1      \* installs / removals happening on the host meanwhile
MaxInstallTasks == 2     \* install_package calls on one InstallationManager
MaxLines == 2            \* output lines written by the child processes, in total
MaxSubmits == 3          \* AsyncRunner.submit calls
RunnerWorkers == 1       \* max_workers the AsyncRunner is constructed with
MaxQueueTasks == 2       \* TaskQueue.add calls
QueueCallers == 2        \* threads calling add / pause / resume
MaxQueueThreads == 2     \* worker threads one TaskQueue starts over its life
MaxAppOps == 1           \* install_app / uninstall_app / update_app calls on one PackageManager
MaxSearches == 1         \* search_apps calls on one PackageManager
LineLen == 600           \* characters of one output line of a child process
MaxCacheCalls == 3       \* get / set / delete / clear / cleanup_expired calls on AppCache
MaxTime == 3             \* seconds that pass on the clock read by time.time()
DefaultTtl == 2          \* the default_ttl every AppCache is constructed with, in seconds
MaxConstructions == 1    \* AppCache objects constructed later over the same cache directory
MaxTtl == 1              \* largest ttl argument passed to AppCache.set, in seconds
MaxQueryLen == 2         \* characters of a search query
MaxSaveSets == 3         \* AppCache.set calls whose persistence threads are followed step by step
MaxSaveTime == 1         \* seconds that pass while those calls are made

VARIABLES
    \* utils/package_manager (1).py : PackageManager
    uCache,        \* self._cache : sequence of AppInfo
    uCacheValid,   \* self._cache_valid
    uKind,         \* per call: "refresh" (refresh_cache) or "getall" (get_all_apps)
    uPc,           \* per call: position in _refresh / get_all_apps
    uPending,      \* per refresh: sources whose get_apps future has not been merged yet
    uIdx,          \* per get_all_apps: index of the next manager of the for loop
    uOrder         \* per call: the sources in the order this call merged them

uVars == <<uCache, uCacheValid, uKind, uPc, uPending, uIdx, uOrder>>

VARIABLES
    \* managers/package_manager.py : PackageManager, data/app_fetcher.py
    mCache,          \* PackageManager._cache
    mCacheValid,     \* PackageManager._cache_valid
    fInstalledCache, \* UnifiedAppFetcher._installed_cache
    mKind,           \* per call: "refresh" or "getall"
    mPc,             \* per call: position in _refresh / get_all_apps
    mApps,           \* per call: local `apps` of UnifiedAppFetcher.get_all_apps
    mSeen,           \* per call: local `seen_ids`
    mKeyIdx,         \* per call: index of the next app key
    mStarted,        \* refresh_cache calls in the order they were started
    mPublished       \* calls in the order they assigned self._cache

mVars == <<mCache, mCacheValid, fInstalledCache, mKind, mPc,
           mApps, mSeen, mKeyIdx, mStarted, mPublished>>

VARIABLES
    \* the host the program runs on
    host,            \* fingerprints installed on the host (what the list commands report)
    hostChanges      \* number of changes made to the host from outside the program

hVars == <<host, hostChanges>>

VARIABLES
    \* utils/package_manager (1).py : backends that gave nothing
    uFailed          \* per call: the sources whose get_apps raised or was unavailable

eVars == <<uFailed>>

VARIABLES
    \* utils/package_manager (1).py : install_app, uninstall_app, update_app
    aCalls,          \* number of install_app / uninstall_app / update_app calls made
    aKind,           \* per call: "install", "uninstall" or "update"
    aPc,             \* per call: position in the call and its thread
    aApp,            \* per call: the AppInfo object passed as `app`
    aRef,            \* per call: where that object lives (list and position)
    aResult,         \* per call: what manager.install / uninstall / update did
    aCallbacks       \* per call: the arguments of every callback invocation

aVars == <<aCalls, aKind, aPc, aApp, aRef, aResult, aCallbacks>>

VARIABLES
    \* managers/package_manager.py : install_app, uninstall_app, search_apps
    pCalls,          \* number of install_app / uninstall_app calls made
    pKind,           \* per call: "install" or "uninstall"
    pPc,             \* per call: position in the _install / _uninstall thread
    pApp,            \* per call: the AppInfo object passed as `app`
    pRef,            \* per call: where that object lives (list and position)
    pResult,         \* per call: (success, message) of _install_package
    pCallbacks,      \* per call: the arguments of every callback invocation
    pSearches,       \* number of search_apps calls made
    mSearchResult,   \* the list the last search_apps call returned
    mLastOp          \* per fingerprint: the last operation that succeeded on it

pVars == <<pCalls, pKind, pPc, pApp, pRef, pResult, pCallbacks, pSearches,
           mSearchResult, mLastOp>>

VARIABLES
    \* managers/installation_manager.py : InstallationManager
    iCancelRequested, \* self._cancel_requested
    iCalls,           \* number of install_package calls so far
    iFp,              \* per task: <<pkg_id, source>> of the call
    iPc,              \* per task: position of the _install thread
    iProc,            \* per task: the child process: "none", "running", "exited", "terminated"
    iExit,            \* per task: exit code of the child process (-1 while unknown)
    iPipe,            \* per task: lines written to stdout and not read yet
    iWritten,         \* number of lines the child processes have written so far
    iEvents,          \* per task: the InstallProgress events passed to progress_callback
    iRet,             \* per task: the (success, message) the _install_* function returned
    iDone,            \* per task: the (success, message) pairs passed to complete_callback
    iCancelled,       \* per task: cancel() was called after the call was accepted and
                      \*           before its child process exited
    iCancelledRunning, \* per task: cancel() was called while its child process was running
    iSpawnedInstalled \* per task: its process was started for a fingerprint that
                      \*           was installed on the host already

iVars == <<iCancelRequested, iCalls, iFp, iPc, iProc, iExit, iPipe, iWritten,
           iEvents, iRet, iDone, iCancelled, iCancelledRunning, iSpawnedInstalled>>

VARIABLES
    \* utils/async_utils.py : AsyncRunner over a ThreadPoolExecutor
    rTasks,        \* self._tasks
    rShutdown,     \* the executor has been shut down
    rWorkQueue,    \* the executor's queue of work items not picked up yet
    rSubmits,      \* number of submit calls so far
    rFuture,       \* per task: state of task._future
    rPc,           \* per task: position in run_task
    rOutcome,      \* per task: what task.func did: returned a result or raised
    rCallbacks     \* per task: the (ok, payload) pairs passed to the callback

rVars == <<rTasks, rShutdown, rWorkQueue, rSubmits, rFuture, rPc, rOutcome, rCallbacks>>

VARIABLES
    \* utils/async_utils.py : TaskQueue
    qQueue,        \* self._queue
    qRunning,      \* self._running
    qAdded,        \* number of add calls so far
    qCallerPc,     \* per calling thread: position in add / resume / _start
    qWorkerPc,     \* per worker thread: position in _process_queue
    qCurrent,      \* per worker thread: the task it took from the queue (0: none)
    qRuns,         \* per task: how many times task.run() was started
    qCallbacks     \* per task: how many times its callback was invoked

qVars == <<qQueue, qRunning, qAdded, qCallerPc, qWorkerPc, qCurrent, qRuns, qCallbacks>>

\* utils/cache.py : AppCache and its cache directory
VARIABLES
    cCache,        \* self._cache : key -> CacheEntry
    cFile,         \* app_cache.json in the cache directory
    cNow,          \* what time.time() returns
    cSavers,       \* _save_persistent_cache threads started and not yet finished
    cCalls,        \* number of calls made on AppCache objects so far
    cCall,         \* the last call: its name, its key and what it returned
    cLastSet,      \* per key: the last set call on this object that no delete or
                   \* clear followed (its data, its moment, the ttl it was given)
    cConstructions \* number of AppCache objects constructed after the first

cVars == <<cCache, cFile, cNow, cSavers, cCalls, cCall, cLastSet, cConstructions>>

\* what the host answers to the probes of the constructors and helper loops
VARIABLES
    dOp,           \* the constructor or method that ran ("none": none yet)
    dOsRelease,    \* /etc/os-release as it found it
    dWhich,        \* per command: how its existence probe ended
    dRun,          \* per command: how its install command ended
    dDistro,       \* PackageManager._distro_info
    dSources,      \* what get_available_sources() returns
    dTool,         \* the helper / package manager that was chosen ("": none)
    dMessage       \* the message returned when none was chosen

dVars == <<dOp, dOsRelease, dWhich, dRun, dDistro, dSources, dTool, dMessage>>

\* search_apps as a function of its arguments
VARIABLES
    sOp,           \* the search_apps that ran ("none": none yet)
    sQuery,        \* its query
    sSources,      \* its sources argument
    sResult        \* the list it returned

sVars == <<sOp, sQuery, sSources, sResult>>

\* utils/cache.py : AppCache.set and its _save_persistent_cache threads
VARIABLES
    wCache,        \* self._cache
    wOrder,        \* the keys of self._cache in the order a loop over it visits them
    wFile,         \* the cache file: length, whether it parses, and the data it holds
    wNow,          \* time.time()
    wSets,         \* set calls made; call i starts thread i
    wPc,           \* per thread: idle, start, iter, open, write, done
    wSize,         \* per thread: len(self._cache) when its loop began
    wData          \* per thread: the local dict `data`

wVars == <<wCache, wOrder, wFile, wNow, wSets, wPc, wSize, wData>>

vars == <<uVars, eVars, aVars, mVars, hVars, pVars, iVars, rVars, qVars, cVars, dVars, sVars, wVars>>

\* what the actions of one subsystem leave alone
notU == <<eVars, aVars, mVars, hVars, pVars, iVars, rVars, qVars, cVars, dVars, sVars, wVars>>

notM == <<uVars, eVars, aVars, pVars, iVars, rVars, qVars, cVars, dVars, sVars, wVars>>

notI == <<uVars, eVars, aVars, mVars, pVars, rVars, qVars, cVars, dVars, sVars, wVars>>

notP == <<uVars, eVars, aVars, iVars, rVars, qVars, cVars, dVars, sVars, wVars>>

notA == <<eVars, mVars, hVars, pVars, iVars, rVars, qVars, cVars, dVars, sVars, wVars>>

notE == <<aVars, mVars, hVars, pVars, iVars, rVars, qVars, cVars, dVars, sVars, wVars>>

notR == <<uVars, eVars, aVars, mVars, hVars, pVars, iVars, qVars, cVars, dVars, sVars, wVars>>

notQ == <<uVars, eVars, aVars, mVars, hVars, pVars, iVars, rVars, cVars, dVars, sVars, wVars>>

notC == <<uVars, eVars, aVars, mVars, hVars, pVars, iVars, rVars, qVars, dVars, sVars, wVars>>

notD == <<uVars, eVars, aVars, mVars, hVars, pVars, iVars, rVars, qVars, cVars, sVars, wVars>>

notS == <<uVars, eVars, aVars, mVars, hVars, pVars, iVars, rVars, qVars, cVars, dVars, wVars>>

notW == <<uVars, eVars, aVars, mVars, hVars, pVars, iVars, rVars, qVars, cVars, dVars, sVars>>

(***************************************************************************)
(* Helpers.                                                                 *)
(***************************************************************************)
Range(s) == {s[i] : i \in 1..Len(s)}


\* models.py AppInfo: update_available is False unless set
AppInfo(id, source, installed) ==
    [id |-> id, source |-> source, installed |-> installed, update_available |-> FALSE]

Fingerprint(app) == <<app.id, app.source>>

\* No two positions of the list carry the same (id, source) pair.
NoDuplicateFingerprints(list) ==
    \A i, j \in 1..Len(list) :
        Fingerprint(list[i]) = Fingerprint(list[j]) => i = j

(***************************************************************************)
(* Backends.  _init_managers registers flatpak, snap, aur, native and      *)
(* distrobox in that order; here flatpak and native are the ones present.   *)
(* The backend command outputs are fixed.                                   *)
(***************************************************************************)
Managers == <<"flatpak", "native">>

ManagerSet == Range(Managers)

\* ids listed by the backend's "list installed" command
InstalledIds(source) ==
    IF source = "flatpak" THEN <<"x">> ELSE <<"y">>

\* ids listed by the backend's "list available" / search command
AvailableIds(source) ==
    IF source = "flatpak" THEN <<"x">> ELSE <<"y", "x">>

\* get_installed: every listed id, tagged installed
GetInstalled(source) ==
    [i \in 1..Len(InstalledIds(source)) |-> AppInfo(InstalledIds(source)[i], source, TRUE)]

\* get_available: every listed id, tagged not installed
GetAvailable(source) ==
    [i \in 1..Len(AvailableIds(source)) |-> AppInfo(AvailableIds(source)[i], source, FALSE)]

\* NativeManager.get_apps: the installed records, then every available record
\* whose id is not an installed id (installed_ids is not extended in the loop).
RECURSIVE AppendNotInstalled(_, _, _)
AppendNotInstalled(all_apps, installed_ids, available) ==
    IF available = <<>> THEN all_apps
    ELSE IF Head(available).id \notin installed_ids
         THEN AppendNotInstalled(Append(all_apps, Head(available)), installed_ids, Tail(available))
         ELSE AppendNotInstalled(all_apps, installed_ids, Tail(available))

NativeGetApps ==
    LET all_apps == GetInstalled("native")
        installed_ids == {all_apps[i].id : i \in 1..Len(all_apps)}
    IN  AppendNotInstalled(all_apps, installed_ids, GetAvailable("native"))

\* FlatpakManager.get_apps: as above, and every appended id joins installed_ids.
RECURSIVE AppendUnseen(_, _, _)
AppendUnseen(all_apps, installed_ids, available) ==
    IF available = <<>> THEN all_apps
    ELSE IF Head(available).id \notin installed_ids
         THEN AppendUnseen(Append(all_apps, Head(available)),
                           installed_ids \cup {Head(available).id}, Tail(available))
         ELSE AppendUnseen(all_apps, installed_ids, Tail(available))

FlatpakGetApps ==
    LET all_apps == GetInstalled("flatpak")
        installed_ids == {all_apps[i].id : i \in 1..Len(all_apps)}
    IN  AppendUnseen(all_apps, installed_ids, GetAvailable("flatpak"))

GetApps(source) == IF source = "native" THEN NativeGetApps ELSE FlatpakGetApps

\* The catalog obtained by extending an empty list with each manager's
\* get_apps() in the order of self._managers.
RECURSIVE MergeInOrder(_)
MergeInOrder(sources) ==
    IF sources = <<>> THEN <<>>
    ELSE GetApps(Head(sources)) \o MergeInOrder(Tail(sources))

(***************************************************************************)
(* utils/package_manager (1).py : PackageManager.refresh_cache and         *)
(* get_all_apps.  Every call runs on its own thread; the statements of      *)
(* different calls interleave.                                              *)
(***************************************************************************)
UCalls == 1..MaxCatalogCalls

UInit ==
    /\ uCache = <<>>
    /\ uCacheValid = FALSE
    /\ uKind = [c \in UCalls |-> "none"]
    /\ uPc = [c \in UCalls |-> "idle"]
    /\ uPending = [c \in UCalls |-> {}]
    /\ uIdx = [c \in UCalls |-> 0]
    /\ uOrder = [c \in UCalls |-> <<>>]

\* refresh_cache(callback): starts the daemon thread running _refresh.
URefreshCache(c) ==
    /\ uPc[c] = "idle"
    /\ \A d \in 1..(c - 1) : uPc[d] # "idle"
    /\ uKind' = [uKind EXCEPT ![c] = "refresh"]
    /\ uPc' = [uPc EXCEPT ![c] = "reset"]
    /\ UNCHANGED <<uCache, uCacheValid, uPending, uIdx, uOrder, notU>>

\* _refresh: self._cache = [] and one get_apps future submitted per manager.
URefreshReset(c) ==
    /\ uKind[c] = "refresh" /\ uPc[c] = "reset"
    /\ uCache' = <<>>
    /\ uPending' = [uPending EXCEPT ![c] = ManagerSet]
    /\ uPc' = [uPc EXCEPT ![c] = "merge"]
    /\ UNCHANGED <<uCacheValid, uKind, uIdx, uOrder, notU>>

\* _refresh: as_completed yields the future of `source`, the next one to
\* complete, and self._cache.extend(apps) appends its records.
URefreshMerge(c, source) ==
    /\ uKind[c] = "refresh" /\ uPc[c] = "merge"
    /\ source \in uPending[c]
    /\ uCache' = uCache \o GetApps(source)
    /\ uPending' = [uPending EXCEPT ![c] = @ \ {source}]
    /\ uOrder' = [uOrder EXCEPT ![c] = Append(@, source)]
    /\ UNCHANGED <<uCacheValid, uKind, uPc, uIdx, notU>>

\* _refresh: all futures merged; self._cache_valid = True; callback().
URefreshValid(c) ==
    /\ uKind[c] = "refresh" /\ uPc[c] = "merge"
    /\ uPending[c] = {}
    /\ uCacheValid' = TRUE
    /\ uPc' = [uPc EXCEPT ![c] = "done"]
    /\ UNCHANGED <<uCache, uKind, uPending, uIdx, uOrder, notU>>

\* get_all_apps(): with a valid cache it returns self._cache at once,
\* otherwise it enters the synchronous rebuild.
UGetAllApps(c) ==
    /\ uPc[c] = "idle"
    /\ \A d \in 1..(c - 1) : uPc[d] # "idle"
    /\ uKind' = [uKind EXCEPT ![c] = "getall"]
    /\ uPc' = [uPc EXCEPT ![c] = IF uCacheValid THEN "done" ELSE "reset"]
    /\ UNCHANGED <<uCache, uCacheValid, uPending, uIdx, uOrder, notU>>

\* get_all_apps: self._cache = []
UGetAllReset(c) ==
    /\ uKind[c] = "getall" /\ uPc[c] = "reset"
    /\ uCache' = <<>>
    /\ uIdx' = [uIdx EXCEPT ![c] = 1]
    /\ uPc' = [uPc EXCEPT ![c] = "merge"]
    /\ UNCHANGED <<uCacheValid, uKind, uPending, uOrder, notU>>

\* get_all_apps: one iteration of the for loop over self._managers.items().
UGetAllMerge(c) ==
    /\ uKind[c] = "getall" /\ uPc[c] = "merge"
    /\ uIdx[c] <= Len(Managers)
    /\ uCache' = uCache \o GetApps(Managers[uIdx[c]])
    /\ uOrder' = [uOrder EXCEPT ![c] = Append(@, Managers[uIdx[c]])]
    /\ uIdx' = [uIdx EXCEPT ![c] = @ + 1]
    /\ UNCHANGED <<uCacheValid, uKind, uPc, uPending, notU>>

\* get_all_apps: self._cache_valid = True; return self._cache
UGetAllValid(c) ==
    /\ uKind[c] = "getall" /\ uPc[c] = "merge"
    /\ uIdx[c] > Len(Managers)
    /\ uCacheValid' = TRUE
    /\ uPc' = [uPc EXCEPT ![c] = "done"]
    /\ UNCHANGED <<uCache, uKind, uPending, uIdx, uOrder, notU>>

UNext ==
    \E c \in UCalls :
        \/ URefreshCache(c)
        \/ URefreshReset(c)
        \/ \E source \in ManagerSet : URefreshMerge(c, source)
        \/ URefreshValid(c)
        \/ UGetAllApps(c)
        \/ UGetAllReset(c)
        \/ UGetAllMerge(c)
        \/ UGetAllValid(c)

(***************************************************************************)
(* utils/package_manager (1).py : refresh_cache and get_all_apps when a     *)
(* backend gives nothing: its get_apps raises, or the backend is not         *)
(* available and get_apps returns the empty list.                            *)
(***************************************************************************)
Faults == {"raised", "unavailable"}

EInit == uFailed = [c \in UCalls |-> {}]

\* URefreshMergeFault with the records of the backend appended all the same
URefreshMergeFaultKeeps(c, source, fault) ==
    /\ uKind[c] = "refresh" /\ uPc[c] = "merge"
    /\ source \in uPending[c]
    /\ uCache' = uCache \o GetApps(source)
    /\ uPending' = [uPending EXCEPT ![c] = @ \ {source}]
    /\ uFailed' = [uFailed EXCEPT ![c] = @ \cup {source}]
    /\ UNCHANGED <<uCacheValid, uKind, uPc, uIdx, uOrder, notE>>

\* _refresh: as_completed yields the future of `source`; future.result()
\* raises and the except branch prints the error, or it returns [] and
\* self._cache.extend([]) appends nothing.
URefreshMergeFault(c, source, fault) ==
    /\ uKind[c] = "refresh" /\ uPc[c] = "merge"
    /\ source \in uPending[c]
    /\ uCache' = IF fault = "raised" THEN uCache ELSE uCache \o <<>>
    /\ uPending' = [uPending EXCEPT ![c] = @ \ {source}]
    /\ uFailed' = [uFailed EXCEPT ![c] = @ \cup {source}]
    /\ UNCHANGED <<uCacheValid, uKind, uPc, uIdx, uOrder, notE>>

\* get_all_apps: one iteration of the for loop in which manager.get_apps()
\* raises (caught and printed) or returns [].
UGetAllMergeFault(c, fault) ==
    /\ uKind[c] = "getall" /\ uPc[c] = "merge"
    /\ uIdx[c] <= Len(Managers)
    /\ uCache' = IF fault = "raised" THEN uCache ELSE uCache \o <<>>
    /\ uFailed' = [uFailed EXCEPT ![c] = @ \cup {Managers[uIdx[c]]}]
    /\ uIdx' = [uIdx EXCEPT ![c] = @ + 1]
    /\ UNCHANGED <<uCacheValid, uKind, uPc, uPending, uOrder, notE>>

UFaultNext ==
    \/ \E c \in UCalls, source \in ManagerSet, fault \in Faults :
            URefreshMergeFault(c, source, fault)
    \/ \E c \in UCalls, fault \in Faults : UGetAllMergeFault(c, fault)

\* refresh_cache and get_all_apps over backends that can fail
UFaultyNext == UNext \/ UFaultNext

(***************************************************************************)
(* utils/package_manager (1).py : install_app, uninstall_app, update_app.   *)
(***************************************************************************)
AOps == 1..MaxAppOps

\* number of times self._cache was set to a new empty list: once by every
\* call that went past its reset
UResets ==
    Cardinality({c \in UCalls : /\ uPc[c] \in {"merge", "done"}
                                 /\ (uKind[c] = "refresh" \/ uIdx[c] > 0)})

\* AppInfo objects the caller holds that are in no catalog list: one of a
\* source without a manager, one with an update pending
DetachedApps ==
    {[id |-> "z", source |-> "snap", installed |-> FALSE, update_available |-> FALSE],
     [id |-> "x", source |-> "flatpak", installed |-> TRUE, update_available |-> TRUE]}

\* what the callback gets from the outcome of manager.install / uninstall /
\* update: its (success, message), or (False, str(e)) when it raised
BackendResult(outcome) ==
    IF outcome = "ok" THEN <<TRUE, "output">>
    ELSE IF outcome = "failed" THEN <<FALSE, "output">>
    ELSE <<FALSE, "error">>

\* the flag a successful operation sets on `app`
SetFlag(app, kind) ==
    IF kind = "install" THEN [app EXCEPT !.installed = TRUE]
    ELSE IF kind = "uninstall" THEN [app EXCEPT !.installed = FALSE]
    ELSE [app EXCEPT !.update_available = FALSE]

AInit ==
    /\ aCalls = 0
    /\ aKind = [o \in AOps |-> "none"]
    /\ aPc = [o \in AOps |-> "idle"]
    /\ aApp = [o \in AOps |-> AppInfo("none", "none", FALSE)]
    /\ aRef = [o \in AOps |-> [resets |-> -1, pos |-> 0]]
    /\ aResult = [o \in AOps |-> <<FALSE, "none">>]
    /\ aCallbacks = [o \in AOps |-> <<>>]

\* install_app / uninstall_app / update_app (app, callback), app being record
\* i of the list self._cache holds now: manager = self._managers.get(
\* app.source), and the thread starts.
AStartOnCatalog(o, kind, i) ==
    /\ o = aCalls + 1
    /\ aCalls' = aCalls + 1
    /\ i \in 1..Len(uCache)
    /\ aKind' = [aKind EXCEPT ![o] = kind]
    /\ aApp' = [aApp EXCEPT ![o] = uCache[i]]
    /\ aRef' = [aRef EXCEPT ![o] = [resets |-> UResets, pos |-> i]]
    /\ IF uCache[i].source \in ManagerSet
       THEN aPc' = [aPc EXCEPT ![o] = "run"]
       ELSE aPc' = [aPc EXCEPT ![o] = "reject"]
    /\ UNCHANGED <<aResult, aCallbacks, uVars, notA>>

\* the same with an AppInfo object that is in no catalog list
AStartDetached(o, kind, app) ==
    /\ o = aCalls + 1
    /\ aCalls' = aCalls + 1
    /\ aKind' = [aKind EXCEPT ![o] = kind]
    /\ aApp' = [aApp EXCEPT ![o] = app]
    /\ aRef' = [aRef EXCEPT ![o] = [resets |-> -1, pos |-> 0]]
    /\ IF app.source \in ManagerSet
       THEN aPc' = [aPc EXCEPT ![o] = "run"]
       ELSE aPc' = [aPc EXCEPT ![o] = "reject"]
    /\ UNCHANGED <<aResult, aCallbacks, uVars, notA>>

\* if not manager: callback(False, "Source ... not available"); return
ARejectOp(o) ==
    /\ aPc[o] = "reject"
    /\ aCallbacks' = [aCallbacks EXCEPT ![o] = Append(@, <<FALSE, "not available">>)]
    /\ aPc' = [aPc EXCEPT ![o] = "done"]
    /\ UNCHANGED <<aCalls, aKind, aApp, aRef, aResult, uVars, notA>>

\* thread: manager.install(app.id) / uninstall / update returns or raises
ARunBackend(o, outcome) ==
    /\ aPc[o] = "run"
    /\ aResult' = [aResult EXCEPT ![o] = BackendResult(outcome)]
    /\ aPc' = [aPc EXCEPT ![o] = "finish"]
    /\ UNCHANGED <<aCalls, aKind, aApp, aRef, aCallbacks, uVars, notA>>

\* AFinishOp with the flag set whatever manager.install returned
AFinishOpAlwaysFlags(o) ==
    /\ aPc[o] = "finish"
    /\ aApp' = [aApp EXCEPT ![o] = SetFlag(@, aKind[o])]
    /\ uCache' = IF aRef[o].pos > 0 /\ aRef[o].resets = UResets
                  THEN [uCache EXCEPT ![aRef[o].pos] = SetFlag(@, aKind[o])]
                  ELSE uCache
    /\ uCacheValid' = IF aKind[o] \in {"install", "uninstall"} THEN FALSE
                       ELSE uCacheValid
    /\ aCallbacks' = [aCallbacks EXCEPT ![o] = Append(@, aResult[o])]
    /\ aPc' = [aPc EXCEPT ![o] = "done"]
    /\ UNCHANGED <<aCalls, aKind, aRef, aResult, uKind, uPc, uPending, uIdx, uOrder, notA>>

\* thread: if success, the flag of `app` is set and, for install and
\* uninstall, self._cache_valid = False; then callback(success, message).
\* The object is in the catalog when self._cache was not reset since the
\* call took it from there.
AFinishOp(o) ==
    /\ aPc[o] = "finish"
    /\ IF aResult[o][1]
       THEN /\ aApp' = [aApp EXCEPT ![o] = SetFlag(@, aKind[o])]
            /\ uCache' = IF aRef[o].pos > 0 /\ aRef[o].resets = UResets
                          THEN [uCache EXCEPT ![aRef[o].pos] = SetFlag(@, aKind[o])]
                          ELSE uCache
            /\ uCacheValid' = IF aKind[o] \in {"install", "uninstall"} THEN FALSE
                               ELSE uCacheValid
       ELSE UNCHANGED <<aApp, uCache, uCacheValid>>
    /\ aCallbacks' = [aCallbacks EXCEPT ![o] = Append(@, aResult[o])]
    /\ aPc' = [aPc EXCEPT ![o] = "done"]
    /\ UNCHANGED <<aCalls, aKind, aRef, aResult, uKind, uPc, uPending, uIdx, uOrder, notA>>

AKinds == {"install", "uninstall", "update"}

\* positions a record can have in self._cache
CatalogPositions == 1..(MaxCatalogCalls * Len(MergeInOrder(Managers)))

ANext ==
    \/ \E o \in AOps, kind \in AKinds, i \in CatalogPositions : AStartOnCatalog(o, kind, i)
    \/ \E o \in AOps, kind \in AKinds, app \in DetachedApps : AStartDetached(o, kind, app)
    \/ \E o \in AOps : ARejectOp(o)
    \/ \E o \in AOps, outcome \in {"ok", "failed", "raised"} : ARunBackend(o, outcome)
    \/ \E o \in AOps : AFinishOp(o)

\* every operation of the PackageManager of utils/package_manager (1).py
UOpsNext == UNext \/ ANext

\* the steps of the get_all_apps calls alone
UGetAllNext ==
    \E c \in UCalls :
        \/ UGetAllApps(c)
        \/ UGetAllReset(c)
        \/ UGetAllMerge(c)
        \/ UGetAllValid(c)

(***************************************************************************)
(* managers/package_manager.py : PackageManager over                       *)
(* data/app_fetcher.py : UnifiedAppFetcher.                                 *)
(***************************************************************************)
\* _detect_sources: the available sources, in the order of the sources dict.
FetcherSources == <<"flatpak", "native">>

\* get_popular_app_keys(): keys of POPULAR_APPS, in order.
AppKeys == <<"firefox", "google-chrome">>

\* get_package_id(key, source): PACKAGE_IDS[key].get(source); "None" is None.
PackageId(key, source) ==
    IF key = "firefox"
    THEN (IF source = "flatpak" THEN "org.mozilla.firefox" ELSE "firefox")
    ELSE (IF source = "flatpak" THEN "com.google.Chrome" ELSE "None")

\* every fingerprint the fetcher can list
FetcherFingerprints ==
    {<<PackageId(k, s), s>> : k \in Range(AppKeys), s \in Range(FetcherSources)}
        \ {<<"None", s>> : s \in Range(FetcherSources)}

\* keys of the dict built by _load_installed_cache
InstalledCacheKeys == {"flatpak", "snap", "aur", "native"}

\* _load_installed_cache: per source, the ids the host reports as installed.
LoadInstalledCache(installed) ==
    [s \in InstalledCacheKeys |-> {f[1] : f \in {g \in installed : g[2] = s}}]

\* _is_installed(pkg_id, source) against a given self._installed_cache.
IsInstalled(installed_cache, pkg_id, source) ==
    IF source \in DOMAIN installed_cache
    THEN pkg_id \in installed_cache[source]
    ELSE FALSE

\* get_all_apps: the inner loop over the available sources for one app key,
\* from position i; st = [apps, seen].
RECURSIVE FetchKey(_, _, _, _)
FetchKey(st, key, i, installed_cache) ==
    IF i > Len(FetcherSources) THEN st
    ELSE LET source == FetcherSources[i]
             pkg_id == PackageId(key, source)
             cache_key == <<pkg_id, source>>
         IN  IF pkg_id = "None" \/ cache_key \in st.seen
             THEN FetchKey(st, key, i + 1, installed_cache)
             ELSE FetchKey([apps |-> Append(st.apps,
                                     AppInfo(pkg_id, source,
                                             IsInstalled(installed_cache, pkg_id, source))),
                            seen |-> st.seen \cup {cache_key}],
                           key, i + 1, installed_cache)

MCalls == 1..MaxCatalogCalls

MInit ==
    /\ mCache = <<>>
    /\ mCacheValid = FALSE
    /\ fInstalledCache = << >>
    /\ mKind = [c \in MCalls |-> "none"]
    /\ mPc = [c \in MCalls |-> "idle"]
    /\ mApps = [c \in MCalls |-> <<>>]
    /\ mSeen = [c \in MCalls |-> {}]
    /\ mKeyIdx = [c \in MCalls |-> 0]
    /\ mStarted = <<>>
    /\ mPublished = <<>>

\* The host changes under the program: a package gets installed or removed.
HostChange(f) ==
    /\ hostChanges < MaxHostChanges
    /\ host' = IF f \in host THEN host \ {f} ELSE host \cup {f}
    /\ hostChanges' = hostChanges + 1
    /\ UNCHANGED <<mVars, notM>>

\* refresh_cache(callback): starts the daemon thread running _refresh.
MRefreshCache(c) ==
    /\ mPc[c] = "idle"
    /\ \A d \in 1..(c - 1) : mPc[d] # "idle"
    /\ mKind' = [mKind EXCEPT ![c] = "refresh"]
    /\ mPc' = [mPc EXCEPT ![c] = "load"]
    /\ mStarted' = Append(mStarted, c)
    /\ UNCHANGED <<mCache, mCacheValid, fInstalledCache, hVars, mApps,
                   mSeen, mKeyIdx, mPublished, notM>>

\* get_all_apps(): returns self._cache when valid, else fetches on this thread.
MGetAllApps(c) ==
    /\ mPc[c] = "idle"
    /\ \A d \in 1..(c - 1) : mPc[d] # "idle"
    /\ mKind' = [mKind EXCEPT ![c] = "getall"]
    /\ mPc' = [mPc EXCEPT ![c] = IF mCacheValid THEN "done" ELSE "load"]
    /\ UNCHANGED <<mCache, mCacheValid, fInstalledCache, hVars, mApps,
                   mSeen, mKeyIdx, mStarted, mPublished, notM>>

\* UnifiedAppFetcher.get_all_apps: self._load_installed_cache(); apps = [];
\* seen_ids = set()
MLoadInstalled(c) ==
    /\ mPc[c] = "load"
    /\ fInstalledCache' = LoadInstalledCache(host)
    /\ mApps' = [mApps EXCEPT ![c] = <<>>]
    /\ mSeen' = [mSeen EXCEPT ![c] = {}]
    /\ mKeyIdx' = [mKeyIdx EXCEPT ![c] = 1]
    /\ mPc' = [mPc EXCEPT ![c] = "build"]
    /\ UNCHANGED <<mCache, mCacheValid, hVars, mKind, mStarted, mPublished, notM>>

\* UnifiedAppFetcher.get_all_apps: one iteration of the loop over the app keys.
MBuildKey(c) ==
    /\ mPc[c] = "build"
    /\ mKeyIdx[c] <= Len(AppKeys)
    /\ LET st == FetchKey([apps |-> mApps[c], seen |-> mSeen[c]],
                          AppKeys[mKeyIdx[c]], 1, fInstalledCache)
       IN  /\ mApps' = [mApps EXCEPT ![c] = st.apps]
           /\ mSeen' = [mSeen EXCEPT ![c] = st.seen]
    /\ mKeyIdx' = [mKeyIdx EXCEPT ![c] = @ + 1]
    /\ UNCHANGED <<mCache, mCacheValid, fInstalledCache, hVars, mKind, mPc,
                   mStarted, mPublished, notM>>

\* self._cache = self._fetcher.get_all_apps(): the fetch returns and the
\* result is assigned.
MPublish(c) ==
    /\ mPc[c] = "build"
    /\ mKeyIdx[c] > Len(AppKeys)
    /\ mCache' = mApps[c]
    /\ mPublished' = Append(mPublished, c)
    /\ mPc' = [mPc EXCEPT ![c] = "valid"]
    /\ UNCHANGED <<mCacheValid, fInstalledCache, hVars, mKind, mApps, mSeen,
                   mKeyIdx, mStarted, notM>>

\* self._cache_valid = True (then callback() / return self._cache)
MSetValid(c) ==
    /\ mPc[c] = "valid"
    /\ mCacheValid' = TRUE
    /\ mPc' = [mPc EXCEPT ![c] = "done"]
    /\ UNCHANGED <<mCache, fInstalledCache, hVars, mKind, mApps, mSeen,
                   mKeyIdx, mStarted, mPublished, notM>>

\* the steps of the refresh_cache and get_all_apps calls
MCallsNext ==
    \E c \in MCalls :
        \/ MRefreshCache(c)
        \/ MGetAllApps(c)
        \/ MLoadInstalled(c)
        \/ MBuildKey(c)
        \/ MPublish(c)
        \/ MSetValid(c)

MNext ==
    \/ \E f \in FetcherFingerprints : HostChange(f)
    \/ MCallsNext

(***************************************************************************)
(* managers/package_manager.py : install_app, uninstall_app, search_apps.   *)
(***************************************************************************)
POps == 1..MaxAppOps

\* the search strings tried
Queries == {"firefox", "chrome", "o"}

\* search_popular_apps(query): the keys whose key, name or summary contains
\* the query, in the order of POPULAR_APPS.
SearchPopularApps(query) ==
    IF query = "firefox" THEN <<"firefox">>
    ELSE IF query = "chrome" THEN <<"google-chrome">>
    ELSE <<"firefox", "google-chrome">>

\* ids listed by `flatpak search query`
FlatpakSearchIds(query) ==
    IF query = "chrome" THEN <<"com.google.Chrome">> ELSE <<"org.mozilla.firefox">>

\* search: the loop over the matching app keys; st = [apps, seen].
RECURSIVE SearchKeys(_, _, _)
SearchKeys(st, keys, installed_cache) ==
    IF keys = <<>> THEN st
    ELSE SearchKeys(FetchKey(st, Head(keys), 1, installed_cache), Tail(keys), installed_cache)

\* _search_live, flatpak part: every listed id not seen yet becomes a record.
RECURSIVE SearchLive(_, _, _)
SearchLive(st, ids, installed_cache) ==
    IF ids = <<>> THEN st
    ELSE IF <<Head(ids), "flatpak">> \in st.seen
         THEN SearchLive(st, Tail(ids), installed_cache)
         ELSE SearchLive([apps |-> Append(st.apps,
                                    AppInfo(Head(ids), "flatpak",
                                            IsInstalled(installed_cache, Head(ids), "flatpak"))),
                          seen |-> st.seen \cup {<<Head(ids), "flatpak">>}],
                         Tail(ids), installed_cache)

\* UnifiedAppFetcher.search(query), against a given self._installed_cache
Search(query, installed_cache) ==
    SearchLive(SearchKeys([apps |-> <<>>, seen |-> {}], SearchPopularApps(query), installed_cache),
               FlatpakSearchIds(query), installed_cache).apps

\* _install_package / _uninstall_package: (returncode == 0, stdout + stderr),
\* or (False, str(e)) when the run raised.
PackageResult(outcome) ==
    IF outcome = "ok" THEN <<TRUE, "output">>
    ELSE IF outcome = "failed" THEN <<FALSE, "output">>
    ELSE <<FALSE, "error">>

\* the list object self._cache holds: the call that assigned it (0: the
\* empty list of __init__)
CacheId == IF mPublished = <<>> THEN 0 ELSE mPublished[Len(mPublished)]

PInit ==
    /\ pCalls = 0
    /\ pKind = [o \in POps |-> "none"]
    /\ pPc = [o \in POps |-> "idle"]
    /\ pApp = [o \in POps |-> AppInfo("none", "none", FALSE)]
    /\ pRef = [o \in POps |-> [list |-> -1, pos |-> 0]]
    /\ pResult = [o \in POps |-> <<FALSE, "none">>]
    /\ pCallbacks = [o \in POps |-> <<>>]
    /\ pSearches = 0
    /\ mSearchResult = <<>>
    /\ mLastOp = [f \in FetcherFingerprints |-> "none"]

\* search_apps(query): return self._fetcher.search(query)
MSearchApps(query) ==
    /\ pSearches < MaxSearches
    /\ pSearches' = pSearches + 1
    /\ mSearchResult' = Search(query, fInstalledCache)
    /\ UNCHANGED <<pCalls, pKind, pPc, pApp, pRef, pResult, pCallbacks, mLastOp,
                   mVars, hVars, notP>>

\* install_app(app, callback) / uninstall_app(app, callback): starts the
\* thread.  `app` is record i of the list self._cache holds now, or record i
\* of the list search_apps returned.
PStartOp(o, kind, origin, i) ==
    /\ o = pCalls + 1
    /\ pCalls' = pCalls + 1
    /\ IF origin = "cache"
       THEN /\ i \in 1..Len(mCache)
            /\ pApp' = [pApp EXCEPT ![o] = mCache[i]]
            /\ pRef' = [pRef EXCEPT ![o] = [list |-> CacheId, pos |-> i]]
       ELSE /\ i \in 1..Len(mSearchResult)
            /\ pApp' = [pApp EXCEPT ![o] = mSearchResult[i]]
            /\ pRef' = [pRef EXCEPT ![o] = [list |-> -1, pos |-> 0]]
    /\ pKind' = [pKind EXCEPT ![o] = kind]
    /\ pPc' = [pPc EXCEPT ![o] = "run"]
    /\ UNCHANGED <<pResult, pCallbacks, pSearches, mSearchResult, mLastOp,
                   mVars, hVars, notP>>

\* _install / _uninstall: self._install_package(app.id, app.source) runs the
\* backend command to its end; a command that exits 0 has changed the host.
PRunPackage(o, outcome) ==
    /\ pPc[o] = "run"
    /\ pResult' = [pResult EXCEPT ![o] = PackageResult(outcome)]
    /\ host' = IF outcome # "ok" THEN host
               ELSE IF pKind[o] = "install" THEN host \cup {Fingerprint(pApp[o])}
               ELSE host \ {Fingerprint(pApp[o])}
    /\ pPc' = [pPc EXCEPT ![o] = "flag"]
    /\ UNCHANGED <<pCalls, pKind, pApp, pRef, pCallbacks, pSearches, mSearchResult,
                   mLastOp, mVars, hostChanges, notP>>

\* _install / _uninstall: if success: app.installed = True / False; then
\* callback(success, message).  The record is in the catalog when the list it
\* was taken from is still the one self._cache holds.
PFinishOp(o) ==
    /\ pPc[o] = "flag"
    /\ IF pResult[o][1]
       THEN /\ pApp' = [pApp EXCEPT ![o].installed = (pKind[o] = "install")]
            /\ mCache' = IF pRef[o].pos > 0 /\ pRef[o].list = CacheId
                          THEN [mCache EXCEPT ![pRef[o].pos].installed = (pKind[o] = "install")]
                          ELSE mCache
            /\ mLastOp' = [mLastOp EXCEPT ![Fingerprint(pApp[o])] =
                                IF pKind[o] = "install" THEN "installed" ELSE "uninstalled"]
       ELSE UNCHANGED <<pApp, mCache, mLastOp>>
    /\ pCallbacks' = [pCallbacks EXCEPT ![o] = Append(@, pResult[o])]
    /\ pPc' = [pPc EXCEPT ![o] = "done"]
    /\ UNCHANGED <<pCalls, pKind, pRef, pResult, pSearches, mSearchResult,
                   mCacheValid, fInstalledCache, mKind, mPc, mApps, mSeen, mKeyIdx,
                   mStarted, mPublished, hVars, notP>>

PNext ==
    \/ \E query \in Queries : MSearchApps(query)
    \/ \E o \in POps, kind \in {"install", "uninstall"}, origin \in {"cache", "search"},
           i \in 1..(Len(AppKeys) * Len(FetcherSources)) : PStartOp(o, kind, origin, i)
    \/ \E o \in POps, outcome \in {"ok", "failed", "raised"} : PRunPackage(o, outcome)
    \/ \E o \in POps : PFinishOp(o)

\* refresh_cache, get_all_apps, search_apps, install_app and uninstall_app on
\* one PackageManager; the host changes through these operations only
MOpsNext == MCallsNext \/ PNext

(***************************************************************************)
(* managers/installation_manager.py : InstallationManager.                 *)
(* One manager object; every install_package call starts a thread that     *)
(* spawns the child process and reads its output line by line.              *)
(***************************************************************************)
ITasks == 1..MaxInstallTasks

InstallSources == {"flatpak", "snap", "aur", "native"}

PkgIds == {"firefox"}

\* Output lines of the child process, by the keyword they carry.
Lines == {"Downloading", "installing", "plain"}

\* line.lower()
Lower(line) == IF line = "Downloading" THEN "downloading" ELSE line

\* keyword in text
Contains(text, keyword) ==
    \/ text = keyword
    \/ text = "downloading" /\ keyword = "download"
    \/ text = "installing" /\ keyword = "install"

Progress(status, percentage) == [status |-> status, percentage |-> percentage]

\* The progress events one output line produces in the read loop of
\* _install_flatpak / _install_snap / _install_aur / _install_native.
LineEvents(source, line) ==
    IF source = "flatpak" THEN
        IF Contains(line, "Downloading") \/ Contains(Lower(line), "fetching")
        THEN <<Progress("downloading", 5)>>
        ELSE IF Contains(line, "Installing") \/ Contains(Lower(line), "installing")
        THEN <<Progress("installing", 10)>>
        ELSE <<>>
    ELSE IF source = "snap" THEN
        IF Contains(Lower(line), "download")
        THEN <<Progress("downloading", 30)>>
        ELSE IF Contains(Lower(line), "install")
        THEN <<Progress("installing", 70)>>
        ELSE <<>>
    ELSE IF source = "aur" THEN
        IF Contains(Lower(line), "cloning") \/ Contains(Lower(line), "fetching")
        THEN <<Progress("downloading", 20)>>
        ELSE IF Contains(Lower(line), "building") \/ Contains(Lower(line), "making")
        THEN <<Progress("installing", 50)>>
        ELSE IF Contains(Lower(line), "installing") \/ Contains(Lower(line), "upgrading")
        THEN <<Progress("installing", 80)>>
        ELSE <<>>
    ELSE
        IF Contains(Lower(line), "downloading") \/ Contains(Lower(line), "fetching")
        THEN <<Progress("downloading", 40)>>
        ELSE IF Contains(Lower(line), "installing") \/ Contains(Lower(line), "unpacking")
        THEN <<Progress("installing", 70)>>
        ELSE IF Contains(Lower(line), "setting up") \/ Contains(Lower(line), "configuring")
        THEN <<Progress("installing", 90)>>
        ELSE <<>>

\* _install_aur and _install_native look for a helper before they spawn.
DetectsHelper(source) == source \in {"aur", "native"}

\* The DOWNLOADING event _install_aur / _install_native emit before Popen.
PreSpawnEvent(source) ==
    IF source = "aur" THEN Progress("downloading", 10) ELSE Progress("downloading", 20)

\* The events and the return value at the end of the read loop, from
\* process.returncode.
ExitEvent(returncode) ==
    IF returncode = 0 THEN Progress("completed", 100) ELSE Progress("failed", 0)

ExitReturn(returncode) ==
    IF returncode = 0 THEN <<TRUE, "concluida">> ELSE <<FALSE, "output">>

IInit ==
    /\ iCancelRequested = FALSE
    /\ iCalls = 0
    /\ iFp = [t \in ITasks |-> <<"none", "none">>]
    /\ iPc = [t \in ITasks |-> "idle"]
    /\ iProc = [t \in ITasks |-> "none"]
    /\ iExit = [t \in ITasks |-> -1]
    /\ iPipe = [t \in ITasks |-> <<>>]
    /\ iWritten = 0
    /\ iEvents = [t \in ITasks |-> <<>>]
    /\ iRet = [t \in ITasks |-> <<FALSE, "none">>]
    /\ iDone = [t \in ITasks |-> <<>>]
    /\ iCancelled = [t \in ITasks |-> FALSE]
    /\ iCancelledRunning = [t \in ITasks |-> FALSE]
    /\ iSpawnedInstalled = [t \in ITasks |-> FALSE]

\* install_package(pkg_id, source, ...): clears the cancel flag and starts
\* the _install thread.  Calls are numbered in the order they are made.
InstallPackage(t, pkg_id, source) ==
    /\ t = iCalls + 1
    /\ iCalls' = iCalls + 1
    /\ iCancelRequested' = FALSE
    /\ iFp' = [iFp EXCEPT ![t] = <<pkg_id, source>>]
    /\ iPc' = [iPc EXCEPT ![t] = "start"]
    /\ UNCHANGED <<iProc, iExit, iPipe, iWritten, iEvents, iRet, iDone,
                   iCancelled, iCancelledRunning, iSpawnedInstalled, hVars, notI>>

\* cancel(): sets the flag of the manager.
Cancel ==
    /\ iCancelRequested' = TRUE
    /\ iCancelled' = [t \in ITasks |->
                        \/ iCancelled[t]
                        \/ (iPc[t] \in {"start", "detect", "spawn", "read"}
                            /\ iProc[t] \in {"none", "running"})]
    /\ iCancelledRunning' = [t \in ITasks |->
                        iCancelledRunning[t] \/ iProc[t] = "running"]
    /\ UNCHANGED <<iCalls, iFp, iPc, iProc, iExit, iPipe, iWritten, iEvents,
                   iRet, iDone, iSpawnedInstalled, hVars, notI>>

\* _install_*: the PREPARING event, first statement of the worker thread.
IPreparing(t) ==
    /\ iPc[t] = "start"
    /\ iEvents' = [iEvents EXCEPT ![t] = Append(@, Progress("preparing", 0))]
    /\ iPc' = [iPc EXCEPT ![t] = IF DetectsHelper(iFp[t][2]) THEN "detect" ELSE "spawn"]
    /\ UNCHANGED <<iCancelRequested, iCalls, iFp, iProc, iExit, iPipe, iWritten,
                   iRet, iDone, iCancelled, iCancelledRunning, iSpawnedInstalled, hVars, notI>>

\* _install_aur / _install_native: the helper loop.  With a helper the
\* DOWNLOADING event is emitted; without one FAILED, and the function returns.
IDetect(t, found) ==
    /\ iPc[t] = "detect"
    /\ IF found
       THEN /\ iEvents' = [iEvents EXCEPT ![t] = Append(@, PreSpawnEvent(iFp[t][2]))]
            /\ iPc' = [iPc EXCEPT ![t] = "spawn"]
            /\ UNCHANGED iRet
       ELSE /\ iEvents' = [iEvents EXCEPT ![t] = Append(@, Progress("failed", 0))]
            /\ iRet' = [iRet EXCEPT ![t] = <<FALSE, "not found">>]
            /\ iPc' = [iPc EXCEPT ![t] = "complete"]
    /\ UNCHANGED <<iCancelRequested, iCalls, iFp, iProc, iExit, iPipe, iWritten,
                   iDone, iCancelled, iCancelledRunning, iSpawnedInstalled, hVars, notI>>

\* subprocess.Popen(...): the child process starts, or Popen raises and the
\* except branch emits FAILED and returns (False, str(e)).
ISpawn(t, ok) ==
    /\ iPc[t] = "spawn"
    /\ IF ok
       THEN /\ iProc' = [iProc EXCEPT ![t] = "running"]
            /\ iPc' = [iPc EXCEPT ![t] = "read"]
            /\ iSpawnedInstalled' = [iSpawnedInstalled EXCEPT ![t] = iFp[t] \in host]
            /\ UNCHANGED <<iEvents, iRet>>
       ELSE /\ iEvents' = [iEvents EXCEPT ![t] = Append(@, Progress("failed", 0))]
            /\ iRet' = [iRet EXCEPT ![t] = <<FALSE, "exception">>]
            /\ iPc' = [iPc EXCEPT ![t] = "complete"]
            /\ UNCHANGED <<iProc, iSpawnedInstalled>>
    /\ UNCHANGED <<iCancelRequested, iCalls, iFp, iExit, iPipe, iWritten,
                   iDone, iCancelled, iCancelledRunning, hVars, notI>>

\* The child process writes one line to its stdout.
ProcWrite(t, line) ==
    /\ iProc[t] = "running"
    /\ iWritten < MaxLines
    /\ iWritten' = iWritten + 1
    /\ iPipe' = [iPipe EXCEPT ![t] = Append(@, line)]
    /\ UNCHANGED <<iCancelRequested, iCalls, iFp, iPc, iProc, iExit, iEvents,
                   iRet, iDone, iCancelled, iCancelledRunning, iSpawnedInstalled, hVars, notI>>

\* The child process exits on its own with `code`; exit code 0 means the
\* package is now installed on the host (removed from it, for an uninstall).
ProcExit(t, code) ==
    /\ iProc[t] = "running"
    /\ iProc' = [iProc EXCEPT ![t] = "exited"]
    /\ iExit' = [iExit EXCEPT ![t] = code]
    /\ host' = IF code # 0 THEN host
               ELSE IF iPc[t] = "u_wait" THEN host \ {iFp[t]}
               ELSE host \cup {iFp[t]}
    /\ UNCHANGED <<iCancelRequested, iCalls, iFp, iPc, iPipe, iWritten, iEvents,
                   iRet, iDone, iCancelled, iCancelledRunning, iSpawnedInstalled, hostChanges,
                   notI>>

\* One iteration of `for line in process.stdout`: with the cancel flag set
\* the process is terminated and the function returns, otherwise the line is
\* kept and classified.
IReadLine(t) ==
    /\ iPc[t] = "read"
    /\ iPipe[t] # <<>>
    /\ iPipe' = [iPipe EXCEPT ![t] = Tail(@)]
    /\ IF iCancelRequested
       THEN /\ iProc' = [iProc EXCEPT ![t] = IF @ = "running" THEN "terminated" ELSE @]
            /\ iRet' = [iRet EXCEPT ![t] = <<FALSE, "cancelled">>]
            /\ iPc' = [iPc EXCEPT ![t] = "complete"]
            /\ UNCHANGED iEvents
       ELSE /\ iEvents' = [iEvents EXCEPT ![t] = @ \o LineEvents(iFp[t][2], Head(iPipe[t]))]
            /\ UNCHANGED <<iProc, iRet, iPc>>
    /\ UNCHANGED <<iCancelRequested, iCalls, iFp, iExit, iWritten, iDone, iCancelled,
                   iCancelledRunning, iSpawnedInstalled, hVars, notI>>

\* End of the loop: stdout is at end of file, process.wait() returns, and
\* the return code decides between COMPLETED and FAILED.
IReadEof(t) ==
    /\ iPc[t] = "read"
    /\ iPipe[t] = <<>>
    /\ iProc[t] = "exited"
    /\ iEvents' = [iEvents EXCEPT ![t] = Append(@, ExitEvent(iExit[t]))]
    /\ iRet' = [iRet EXCEPT ![t] = ExitReturn(iExit[t])]
    /\ iPc' = [iPc EXCEPT ![t] = "complete"]
    /\ UNCHANGED <<iCancelRequested, iCalls, iFp, iProc, iExit, iPipe, iWritten,
                   iDone, iCancelled, iCancelledRunning, iSpawnedInstalled, hVars, notI>>

\* _install: complete_callback(success, message)
IComplete(t) ==
    /\ iPc[t] = "complete"
    /\ iDone' = [iDone EXCEPT ![t] = Append(@, iRet[t])]
    /\ iPc' = [iPc EXCEPT ![t] = "done"]
    /\ UNCHANGED <<iCancelRequested, iCalls, iFp, iProc, iExit, iPipe, iWritten,
                   iEvents, iRet, iCancelled, iCancelledRunning, iSpawnedInstalled, hVars, notI>>

\* _install / _uninstall: complete_callback(success, message) is invoked and
\* raises; the exception reaches `except Exception as e` of the thread.
ICompleteRaises(t) ==
    /\ iPc[t] = "complete"
    /\ iDone' = [iDone EXCEPT ![t] = Append(@, iRet[t])]
    /\ iPc' = [iPc EXCEPT ![t] = "except"]
    /\ UNCHANGED <<iCancelRequested, iCalls, iFp, iProc, iExit, iPipe, iWritten,
                   iEvents, iRet, iCancelled, iCancelledRunning, iSpawnedInstalled, hVars, notI>>

\* _install / _uninstall, except branch: complete_callback(False, str(e));
\* whether this call raises or not, the thread ends.
IExcept(t) ==
    /\ iPc[t] = "except"
    /\ iDone' = [iDone EXCEPT ![t] = Append(@, <<FALSE, "exception">>)]
    /\ iPc' = [iPc EXCEPT ![t] = "done"]
    /\ UNCHANGED <<iCancelRequested, iCalls, iFp, iProc, iExit, iPipe, iWritten,
                   iEvents, iRet, iCancelled, iCancelledRunning, iSpawnedInstalled, hVars, notI>>

\* output[-1000:] / output[-500:]: the slices of the combined output kept as
\* the completion message and as the details of the FAILED event.
MessageTail == 1000

DetailsTail == 500

Min(a, b) == IF a < b THEN a ELSE b

\* number of characters of the output made of these lines
OutputLen(lines) == LineLen * Len(lines)

\* uninstall_package: the arguments of complete_callback, from
\* process.returncode and the output communicate() collected.
UninstallReturn(returncode, output) ==
    IF returncode = 0 THEN <<TRUE, "concluida">>
    ELSE <<FALSE, "output", Min(OutputLen(output), MessageTail)>>

UninstallSources == InstallSources \cup {"other"}

\* uninstall_package(pkg_id, source, ...): starts the _uninstall thread, which
\* picks the command by source; an unknown source ends the task at once with
\* complete_callback(False, "Unknown source: ...").
UninstallPackage(t, pkg_id, source) ==
    /\ t = iCalls + 1
    /\ iCalls' = iCalls + 1
    /\ iFp' = [iFp EXCEPT ![t] = <<pkg_id, source>>]
    /\ IF source \in {"aur", "native"}
       THEN iPc' = [iPc EXCEPT ![t] = "u_detect"] /\ UNCHANGED iRet
       ELSE IF source \in {"flatpak", "snap"}
       THEN iPc' = [iPc EXCEPT ![t] = "u_prepare"] /\ UNCHANGED iRet
       ELSE /\ iPc' = [iPc EXCEPT ![t] = "complete"]
            /\ iRet' = [iRet EXCEPT ![t] = <<FALSE, "unknown source">>]
    /\ UNCHANGED <<iCancelRequested, iProc, iExit, iPipe, iWritten, iEvents, iDone,
                   iCancelled, iCancelledRunning, iSpawnedInstalled, hVars, notI>>

\* _uninstall, aur / native: the loop over pamac, pacman, apt, dnf running
\* `which`; the first run that does not raise sets pm, and with no pm the
\* task ends with complete_callback(False, "No package manager found").
IUDetect(t, found) ==
    /\ iPc[t] = "u_detect"
    /\ IF found
       THEN iPc' = [iPc EXCEPT ![t] = "u_prepare"] /\ UNCHANGED iRet
       ELSE /\ iPc' = [iPc EXCEPT ![t] = "complete"]
            /\ iRet' = [iRet EXCEPT ![t] = <<FALSE, "no package manager">>]
    /\ UNCHANGED <<iCancelRequested, iCalls, iFp, iProc, iExit, iPipe, iWritten,
                   iEvents, iDone, iCancelled, iCancelledRunning, iSpawnedInstalled,
                   hVars, notI>>

\* _uninstall: the PREPARING event.
IUPreparing(t) ==
    /\ iPc[t] = "u_prepare"
    /\ iEvents' = [iEvents EXCEPT ![t] = Append(@, Progress("preparing", 0))]
    /\ iPc' = [iPc EXCEPT ![t] = "u_spawn"]
    /\ UNCHANGED <<iCancelRequested, iCalls, iFp, iProc, iExit, iPipe, iWritten,
                   iRet, iDone, iCancelled, iCancelledRunning, iSpawnedInstalled,
                   hVars, notI>>

\* _uninstall: subprocess.Popen(cmd, ...) starts the child process, or it
\* raises and the except branch ends the task with
\* complete_callback(False, str(e)), without a progress event.
IUSpawn(t, ok) ==
    /\ iPc[t] = "u_spawn"
    /\ IF ok
       THEN /\ iProc' = [iProc EXCEPT ![t] = "running"]
            /\ iPc' = [iPc EXCEPT ![t] = "u_wait"]
            /\ UNCHANGED iRet
       ELSE /\ iRet' = [iRet EXCEPT ![t] = <<FALSE, "exception">>]
            /\ iPc' = [iPc EXCEPT ![t] = "complete"]
            /\ UNCHANGED iProc
    /\ UNCHANGED <<iCancelRequested, iCalls, iFp, iExit, iPipe, iWritten, iEvents,
                   iDone, iCancelled, iCancelledRunning, iSpawnedInstalled, hVars, notI>>

\* _uninstall: process.communicate() returns the whole output once the child
\* has exited; the return code decides between COMPLETED and FAILED.
IUCommunicate(t) ==
    /\ iPc[t] = "u_wait"
    /\ iProc[t] = "exited"
    /\ iPipe' = [iPipe EXCEPT ![t] = <<>>]
    /\ iEvents' = [iEvents EXCEPT ![t] = Append(@, ExitEvent(iExit[t]))]
    /\ iRet' = [iRet EXCEPT ![t] = UninstallReturn(iExit[t], iPipe[t])]
    /\ iPc' = [iPc EXCEPT ![t] = "complete"]
    /\ UNCHANGED <<iCancelRequested, iCalls, iFp, iProc, iExit, iWritten, iDone,
                   iCancelled, iCancelledRunning, iSpawnedInstalled, hVars, notI>>

\* uninstall_package calls and the steps of their threads and processes
UninstallNext ==
    \/ \E t \in ITasks, pkg_id \in PkgIds, source \in UninstallSources :
            UninstallPackage(t, pkg_id, source)
    \/ \E t \in ITasks, found \in BOOLEAN : IUDetect(t, found)
    \/ \E t \in ITasks : IUPreparing(t)
    \/ \E t \in ITasks, ok \in BOOLEAN : IUSpawn(t, ok)
    \/ \E t \in ITasks, line \in Lines : ProcWrite(t, line)
    \/ \E t \in ITasks, code \in {0, 1} : ProcExit(t, code)
    \/ \E t \in ITasks : IUCommunicate(t)
    \/ \E t \in ITasks : IComplete(t)
    \/ \E t \in ITasks : ICompleteRaises(t)
    \/ \E t \in ITasks : IExcept(t)

\* the steps of the _install thread of task t
IThread(t) ==
    \/ IPreparing(t)
    \/ \E found \in BOOLEAN : IDetect(t, found)
    \/ \E ok \in BOOLEAN : ISpawn(t, ok)
    \/ IReadLine(t)
    \/ IReadEof(t)
    \/ IComplete(t)
    \/ ICompleteRaises(t)
    \/ IExcept(t)

INext ==
    \/ \E t \in ITasks, pkg_id \in PkgIds, source \in InstallSources :
            InstallPackage(t, pkg_id, source)
    \/ Cancel
    \/ \E t \in ITasks : IPreparing(t)
    \/ \E t \in ITasks, found \in BOOLEAN : IDetect(t, found)
    \/ \E t \in ITasks, ok \in BOOLEAN : ISpawn(t, ok)
    \/ \E t \in ITasks, line \in Lines : ProcWrite(t, line)
    \/ \E t \in ITasks, code \in {0, 1} : ProcExit(t, code)
    \/ \E t \in ITasks : IReadLine(t)
    \/ \E t \in ITasks : IReadEof(t)
    \/ \E t \in ITasks : IComplete(t)
    \/ \E t \in ITasks : ICompleteRaises(t)
    \/ \E t \in ITasks : IExcept(t)

(***************************************************************************)
(* utils/async_utils.py : AsyncTask and AsyncRunner.  The runner hands      *)
(* run_task closures to a ThreadPoolExecutor: a work item waits in the      *)
(* executor's queue until a worker thread is free, and a work item whose    *)
(* future was cancelled meanwhile is dropped when a worker reaches it.      *)
(* submit, cancel_all and shutdown are called from one thread.               *)
(***************************************************************************)
RTasks == 1..MaxSubmits

\* AsyncTask.on_complete: the arguments passed to the callback, from
\* task.error / task.result as task.run left them.
OnCompleteArgs(outcome) ==
    IF outcome = "raised" THEN <<FALSE, "error">> ELSE <<TRUE, "result">>

\* number of work items being run by the executor's worker threads
RBusy == Cardinality({t \in RTasks : rFuture[t] = "running"})

\* Future.cancel(): only a pending future becomes cancelled.
FutureCancel(state) == IF state = "pending" THEN "cancelled" ELSE state

RInit ==
    /\ rTasks = <<>>
    /\ rShutdown = FALSE
    /\ rWorkQueue = <<>>
    /\ rSubmits = 0
    /\ rFuture = [t \in RTasks |-> "none"]
    /\ rPc = [t \in RTasks |-> "none"]
    /\ rOutcome = [t \in RTasks |-> "none"]
    /\ rCallbacks = [t \in RTasks |-> <<>>]

\* submit(func, callback): the task joins self._tasks, then the executor
\* queues run_task; after shutdown the executor raises instead and the task
\* is left without a future.
RSubmit(t) ==
    /\ t = rSubmits + 1
    /\ rSubmits' = rSubmits + 1
    /\ rTasks' = Append(rTasks, t)
    /\ IF rShutdown
       THEN /\ rFuture' = [rFuture EXCEPT ![t] = "rejected"]
            /\ UNCHANGED rWorkQueue
       ELSE /\ rFuture' = [rFuture EXCEPT ![t] = "pending"]
            /\ rWorkQueue' = Append(rWorkQueue, t)
    /\ UNCHANGED <<rShutdown, rPc, rOutcome, rCallbacks, notR>>

\* A free worker thread takes the next work item: a cancelled one is
\* dropped, a pending one starts running run_task.
RStart(t) ==
    /\ rWorkQueue # <<>>
    /\ t = Head(rWorkQueue)
    /\ RBusy < RunnerWorkers
    /\ rWorkQueue' = Tail(rWorkQueue)
    /\ IF rFuture[t] = "cancelled"
       THEN UNCHANGED <<rFuture, rPc>>
       ELSE /\ rFuture' = [rFuture EXCEPT ![t] = "running"]
            /\ rPc' = [rPc EXCEPT ![t] = "run"]
    /\ UNCHANGED <<rTasks, rShutdown, rSubmits, rOutcome, rCallbacks, notR>>

\* AsyncTask.run: task.func returns or raises.
RRun(t, outcome) ==
    /\ rPc[t] = "run"
    /\ rOutcome' = [rOutcome EXCEPT ![t] = outcome]
    /\ rPc' = [rPc EXCEPT ![t] = "on_complete"]
    /\ UNCHANGED <<rTasks, rShutdown, rWorkQueue, rSubmits, rFuture, rCallbacks, notR>>

\* run_task, finally: task.on_complete() invokes the callback.
ROnComplete(t) ==
    /\ rPc[t] = "on_complete"
    /\ rCallbacks' = [rCallbacks EXCEPT ![t] = Append(@, OnCompleteArgs(rOutcome[t]))]
    /\ rPc' = [rPc EXCEPT ![t] = "remove"]
    /\ UNCHANGED <<rTasks, rShutdown, rWorkQueue, rSubmits, rFuture, rOutcome, notR>>

\* run_task, finally: the task leaves self._tasks if it is still there, and
\* the work item is over.
RRemove(t) ==
    /\ rPc[t] = "remove"
    /\ rTasks' = SelectSeq(rTasks, LAMBDA x : x # t)
    /\ rFuture' = [rFuture EXCEPT ![t] = "finished"]
    /\ rPc' = [rPc EXCEPT ![t] = "end"]
    /\ UNCHANGED <<rShutdown, rWorkQueue, rSubmits, rOutcome, rCallbacks, notR>>

\* cancel_all() that clears the list and cancels no future
RCancelAllOnlyClears ==
    /\ rTasks # <<>>
    /\ rTasks' = <<>>
    /\ UNCHANGED <<rFuture, rShutdown, rWorkQueue, rSubmits, rPc, rOutcome, rCallbacks, notR>>

\* cancel_all(): cancels the future of every task of self._tasks and clears
\* the list.
RCancelAll ==
    /\ rTasks # <<>>
    /\ rFuture' = [t \in RTasks |->
                     IF t \in Range(rTasks) THEN FutureCancel(rFuture[t]) ELSE rFuture[t]]
    /\ rTasks' = <<>>
    /\ UNCHANGED <<rShutdown, rWorkQueue, rSubmits, rPc, rOutcome, rCallbacks, notR>>

\* shutdown(wait): the executor accepts no new work; queued work still runs.
RShutdownCall ==
    /\ ~rShutdown
    /\ rShutdown' = TRUE
    /\ UNCHANGED <<rTasks, rWorkQueue, rSubmits, rFuture, rPc, rOutcome, rCallbacks, notR>>

RNext ==
    \/ \E t \in RTasks : RSubmit(t)
    \/ \E t \in RTasks : RStart(t)
    \/ \E t \in RTasks, outcome \in {"returned", "raised"} : RRun(t, outcome)
    \/ \E t \in RTasks : ROnComplete(t)
    \/ \E t \in RTasks : RRemove(t)
    \/ RCancelAll
    \/ RShutdownCall

(***************************************************************************)
(* utils/async_utils.py : TaskQueue.  add, pause and resume are called      *)
(* from caller threads; every _start spawns a new thread running            *)
(* _process_queue.                                                           *)
(***************************************************************************)
QTasks == 1..MaxQueueTasks

QCallers == 1..QueueCallers

QWorkers == 1..MaxQueueThreads

QInit ==
    /\ qQueue = <<>>
    /\ qRunning = FALSE
    /\ qAdded = 0
    /\ qCallerPc = [k \in QCallers |-> "idle"]
    /\ qWorkerPc = [w \in QWorkers |-> "unborn"]
    /\ qCurrent = [w \in QWorkers |-> 0]
    /\ qRuns = [t \in QTasks |-> 0]
    /\ qCallbacks = [t \in QTasks |-> 0]

\* add: task = AsyncTask(...); self._queue.put(task)
QAddPut(k) ==
    /\ qCallerPc[k] = "idle"
    /\ qAdded < MaxQueueTasks
    /\ qAdded' = qAdded + 1
    /\ qQueue' = Append(qQueue, qAdded + 1)
    /\ qCallerPc' = [qCallerPc EXCEPT ![k] = "check"]
    /\ UNCHANGED <<qRunning, qWorkerPc, qCurrent, qRuns, qCallbacks, notQ>>

\* resume(): enters at the same test as add after its put
QResume(k) ==
    /\ qCallerPc[k] = "idle"
    /\ qCallerPc' = [qCallerPc EXCEPT ![k] = "check"]
    /\ UNCHANGED <<qQueue, qRunning, qAdded, qWorkerPc, qCurrent, qRuns, qCallbacks, notQ>>

\* add / resume: if not self._running: self._start()
QCheckRunning(k) ==
    /\ qCallerPc[k] = "check"
    /\ qCallerPc' = [qCallerPc EXCEPT ![k] = IF qRunning THEN "idle" ELSE "start"]
    /\ UNCHANGED <<qQueue, qRunning, qAdded, qWorkerPc, qCurrent, qRuns, qCallbacks, notQ>>

\* _start: if self._running: return
QStartCheck(k) ==
    /\ qCallerPc[k] = "start"
    /\ qCallerPc' = [qCallerPc EXCEPT ![k] = IF qRunning THEN "idle" ELSE "spawn"]
    /\ UNCHANGED <<qQueue, qRunning, qAdded, qWorkerPc, qCurrent, qRuns, qCallbacks, notQ>>

\* _start: self._running = True; a new thread runs _process_queue
QStartSpawn(k, w) ==
    /\ qCallerPc[k] = "spawn"
    /\ qWorkerPc[w] = "unborn"
    /\ \A v \in 1..(w - 1) : qWorkerPc[v] # "unborn"
    /\ qRunning' = TRUE
    /\ qWorkerPc' = [qWorkerPc EXCEPT ![w] = "loop"]
    /\ qCallerPc' = [qCallerPc EXCEPT ![k] = "idle"]
    /\ UNCHANGED <<qQueue, qAdded, qCurrent, qRuns, qCallbacks, notQ>>

\* pause(): self._running = False
QPause(k) ==
    /\ qCallerPc[k] = "idle"
    /\ qRunning
    /\ qRunning' = FALSE
    /\ UNCHANGED <<qQueue, qAdded, qCallerPc, qWorkerPc, qCurrent, qRuns, qCallbacks, notQ>>

\* _process_queue: while self._running
QLoop(w) ==
    /\ qWorkerPc[w] = "loop"
    /\ qWorkerPc' = [qWorkerPc EXCEPT ![w] = IF qRunning THEN "get" ELSE "dead"]
    /\ UNCHANGED <<qQueue, qRunning, qAdded, qCallerPc, qCurrent, qRuns, qCallbacks, notQ>>

\* _process_queue: task = self._queue.get(timeout=1.0) returns a task, which
\* becomes the current task and starts to run
QGet(w) ==
    /\ qWorkerPc[w] = "get"
    /\ qQueue # <<>>
    /\ qQueue' = Tail(qQueue)
    /\ qCurrent' = [qCurrent EXCEPT ![w] = Head(qQueue)]
    /\ qRuns' = [qRuns EXCEPT ![Head(qQueue)] = @ + 1]
    /\ qWorkerPc' = [qWorkerPc EXCEPT ![w] = "run"]
    /\ UNCHANGED <<qRunning, qAdded, qCallerPc, qCallbacks, notQ>>

\* _process_queue: the get times out on an empty queue and raises queue.Empty
QTimeout(w) ==
    /\ qWorkerPc[w] = "get"
    /\ qQueue = <<>>
    /\ qWorkerPc' = [qWorkerPc EXCEPT ![w] = "empty"]
    /\ UNCHANGED <<qQueue, qRunning, qAdded, qCallerPc, qCurrent, qRuns, qCallbacks, notQ>>

\* _process_queue, except queue.Empty: if self._queue.empty()
QEmptyCheck(w) ==
    /\ qWorkerPc[w] = "empty"
    /\ qWorkerPc' = [qWorkerPc EXCEPT ![w] = IF qQueue = <<>> THEN "stop" ELSE "loop"]
    /\ UNCHANGED <<qQueue, qRunning, qAdded, qCallerPc, qCurrent, qRuns, qCallbacks, notQ>>

\* _process_queue, except queue.Empty: self._running = False; break
QStop(w) ==
    /\ qWorkerPc[w] = "stop"
    /\ qRunning' = FALSE
    /\ qWorkerPc' = [qWorkerPc EXCEPT ![w] = "dead"]
    /\ UNCHANGED <<qQueue, qAdded, qCallerPc, qCurrent, qRuns, qCallbacks, notQ>>

\* _process_queue: task.run() returns or raises, task.on_complete() invokes
\* the callback on either path, and the finally clause clears the current task
QFinish(w) ==
    /\ qWorkerPc[w] = "run"
    /\ qCallbacks' = [qCallbacks EXCEPT ![qCurrent[w]] = @ + 1]
    /\ qCurrent' = [qCurrent EXCEPT ![w] = 0]
    /\ qWorkerPc' = [qWorkerPc EXCEPT ![w] = "loop"]
    /\ UNCHANGED <<qQueue, qRunning, qAdded, qCallerPc, qRuns, notQ>>

\* the steps of the worker threads
QWorker(w) ==
    \/ QLoop(w)
    \/ QGet(w)
    \/ QTimeout(w)
    \/ QEmptyCheck(w)
    \/ QStop(w)
    \/ QFinish(w)

\* add() calls only
QAddNext ==
    \/ \E k \in QCallers : QAddPut(k)
    \/ \E k \in QCallers : QCheckRunning(k)
    \/ \E k \in QCallers : QStartCheck(k)
    \/ \E k \in QCallers, w \in QWorkers : QStartSpawn(k, w)
    \/ \E w \in QWorkers : QLoop(w)
    \/ \E w \in QWorkers : QGet(w)
    \/ \E w \in QWorkers : QTimeout(w)
    \/ \E w \in QWorkers : QEmptyCheck(w)
    \/ \E w \in QWorkers : QStop(w)
    \/ \E w \in QWorkers : QFinish(w)

\* add(), pause() and resume() calls
QNext ==
    \/ QAddNext
    \/ \E k \in QCallers : QPause(k)
    \/ \E k \in QCallers : QResume(k)

(***************************************************************************)
(* utils/cache.py : AppCache.                                               *)
(* get, delete, cleanup_expired and the assignment in set run under         *)
(* self._lock, so each of them is one step whichever thread calls it; a     *)
(* call by another thread on another key is another step in between.        *)
(* get_or_set is a get followed by a set by the same caller.  The clock is  *)
(* read once per call.  Every set starts a thread that writes the file.     *)
(***************************************************************************)
CacheKeys == {"all-apps", "search:firefox"}

None == "None"

\* the data passed to set
CacheValues == {"apps", "hits"}

\* the ttl argument of set: <<>> when it is left out (ttl=None), <<n>> for n
TtlArgs == {<<>>} \cup {<<n>> : n \in 0..MaxTtl}

EmptyDict == [k \in {} |-> None]

NoFile == [exists |-> FALSE, json |-> FALSE, data |-> EmptyDict]

GarbledFile == [exists |-> TRUE, json |-> FALSE, data |-> EmptyDict]

\* CacheEntry(key, data, created, expires)
CacheEntry(key, data, created, expires) ==
    [key |-> key, data |-> data, created |-> created, expires |-> expires]

\* CacheEntry.is_expired: time.time() > self.expires
IsExpired(entry, now) == now > entry.expires

\* del d[key]
Del(d, key) == [k \in DOMAIN d \ {key} |-> d[k]]

\* d[key] = entry
Put(d, key, entry) == [k \in DOMAIN d \cup {key} |-> IF k = key THEN entry ELSE d[k]]

\* set: ttl = ttl or self._default_ttl
TtlOr(arg) == IF arg = <<>> \/ arg[1] = 0 THEN DefaultTtl ELSE arg[1]

\* _load_persistent_cache: no file, nothing loaded; a file that does not
\* parse, self._cache = {}; else the entries with expires > current_time
LoadPersistentCache(file, current_time) ==
    IF ~file.exists \/ ~file.json
    THEN EmptyDict
    ELSE [k \in {key \in DOMAIN file.data : file.data[key].expires > current_time} |->
            CacheEntry(k, file.data[k].data, file.data[k].created, file.data[k].expires)]

\* _save_persistent_cache: every entry of self._cache (all the values here
\* are serializable), expired or not
PersistentData(cache) == [exists |-> TRUE, json |-> TRUE, data |-> cache]

NoCall == [op |-> "none", key |-> "", ret |-> None]

\* the first AppCache, constructed over an empty cache directory
CInit ==
    /\ cCache = EmptyDict
    /\ cFile = NoFile
    /\ cNow = 0
    /\ cSavers = 0
    /\ cCalls = 0
    /\ cCall = NoCall
    /\ cLastSet = [k \in CacheKeys |-> <<>>]
    /\ cConstructions = 0

\* set whose entry expires at the moment of the call
CSetNoTtl(key, data, arg) ==
    /\ cCalls < MaxCacheCalls
    /\ cCalls' = cCalls + 1
    /\ cCache' = Put(cCache, key, CacheEntry(key, data, cNow, cNow))
    /\ cSavers' = cSavers + 1
    /\ cCall' = [op |-> "set", key |-> key, ret |-> None]
    /\ cLastSet' = [cLastSet EXCEPT ![key] = <<[data |-> data, at |-> cNow, ttl |-> arg]>>]
    /\ UNCHANGED <<cFile, cNow, cConstructions, notC>>

\* set(key, data, ttl)
CSet(key, data, arg) ==
    /\ cCalls < MaxCacheCalls
    /\ cCalls' = cCalls + 1
    /\ cCache' = Put(cCache, key, CacheEntry(key, data, cNow, cNow + TtlOr(arg)))
    /\ cSavers' = cSavers + 1
    /\ cCall' = [op |-> "set", key |-> key, ret |-> None]
    /\ cLastSet' = [cLastSet EXCEPT ![key] = <<[data |-> data, at |-> cNow, ttl |-> arg]>>]
    /\ UNCHANGED <<cFile, cNow, cConstructions, notC>>

\* get(key)
CGet(key) ==
    /\ cCalls < MaxCacheCalls
    /\ cCalls' = cCalls + 1
    /\ IF key \notin DOMAIN cCache
       THEN /\ cCall' = [op |-> "get", key |-> key, ret |-> None]
            /\ UNCHANGED cCache
       ELSE IF IsExpired(cCache[key], cNow)
       THEN /\ cCache' = Del(cCache, key)
            /\ cCall' = [op |-> "get", key |-> key, ret |-> None]
       ELSE /\ cCall' = [op |-> "get", key |-> key, ret |-> cCache[key].data]
            /\ UNCHANGED cCache
    /\ UNCHANGED <<cFile, cNow, cSavers, cLastSet, cConstructions, notC>>

\* delete(key)
CDelete(key) ==
    /\ cCalls < MaxCacheCalls
    /\ cCalls' = cCalls + 1
    /\ cCache' = Del(cCache, key)
    /\ cCall' = [op |-> "delete", key |-> key, ret |-> None]
    /\ cLastSet' = [cLastSet EXCEPT ![key] = <<>>]
    /\ UNCHANGED <<cFile, cNow, cSavers, cConstructions, notC>>

\* clear(): empties the map and removes the file
CClear ==
    /\ cCalls < MaxCacheCalls
    /\ cCalls' = cCalls + 1
    /\ cCache' = EmptyDict
    /\ cFile' = NoFile
    /\ cCall' = [op |-> "clear", key |-> "", ret |-> None]
    /\ cLastSet' = [k \in CacheKeys |-> <<>>]
    /\ UNCHANGED <<cNow, cSavers, cConstructions, notC>>

\* cleanup_expired()
CCleanupExpired ==
    /\ cCalls < MaxCacheCalls
    /\ cCalls' = cCalls + 1
    /\ cCache' = [k \in {key \in DOMAIN cCache : ~IsExpired(cCache[key], cNow)} |-> cCache[k]]
    /\ cCall' = [op |-> "cleanup_expired", key |-> "", ret |-> None]
    /\ UNCHANGED <<cFile, cNow, cSavers, cLastSet, cConstructions, notC>>

\* One _save_persistent_cache thread runs to its end.  It holds no lock:
\* it writes what it read of self._cache, or fails and writes nothing (the
\* map changed size under its loop, or the file could not be opened), or,
\* when another such thread writes the same file, leaves a file that does
\* not parse.
SaveOutcomes == {"saved", "error", "garbled"}

CSave(outcome) ==
    /\ cSavers > 0
    /\ outcome = "garbled" => cSavers > 1
    /\ cSavers' = cSavers - 1
    /\ cFile' = CASE outcome = "saved" -> PersistentData(cCache)
                  [] outcome = "error" -> cFile
                  [] outcome = "garbled" -> GarbledFile
    /\ UNCHANGED <<cCache, cNow, cCalls, cCall, cLastSet, cConstructions, notC>>

\* a second passes
CTick ==
    /\ cNow < MaxTime
    /\ cNow' = cNow + 1
    /\ UNCHANGED <<cCache, cFile, cSavers, cCalls, cCall, cLastSet, cConstructions, notC>>

\* The program starts again: AppCache() over the same directory.  The daemon
\* threads of the old process are gone, no call was made on the new object.
CConstruct ==
    /\ cConstructions < MaxConstructions
    /\ cConstructions' = cConstructions + 1
    /\ cCache' = LoadPersistentCache(cFile, cNow)
    /\ cSavers' = 0
    /\ cCall' = [op |-> "__init__", key |-> "", ret |-> None]
    /\ cLastSet' = [k \in CacheKeys |-> <<>>]
    /\ UNCHANGED <<cFile, cNow, cCalls, notC>>

CNext ==
    \/ \E key \in CacheKeys, data \in CacheValues, arg \in TtlArgs : CSet(key, data, arg)
    \/ \E key \in CacheKeys : CGet(key)
    \/ \E key \in CacheKeys : CDelete(key)
    \/ CClear
    \/ CCleanupExpired
    \/ \E outcome \in SaveOutcomes : CSave(outcome)
    \/ CTick
    \/ CConstruct

(***************************************************************************)
(* Probing the host for its tools: PackageManager.__init__ (utils),         *)
(* UnifiedAppFetcher.__init__, AURManager.__init__, NativeManager.__init__  *)
(* and the helper loops of _install_aur and _install_package.  Each is a    *)
(* function of what the host answers to the probes; one of them runs in a   *)
(* behaviour, on a host chosen when it runs.                                *)
(***************************************************************************)
Commands == {"flatpak", "snap", "distrobox", "paru", "yay", "pamac", "pacman", "apt",
             "dnf", "zypper"}

\* subprocess.run([...], timeout=5) of a probe: it returns with exit status
\* zero, returns with another status, or raises (FileNotFoundError,
\* TimeoutExpired when the 5 seconds pass, any other exception)
ProbeOutcomes == {"zero", "nonzero", "raises"}

\* /etc/os-release: no file, a NAME of an Arch family distribution, a NAME
\* of a Debian family one, a NAME that _parse_os_release does not know
OsReleases == {"absent", "manjaro", "ubuntu", "other"}

DistroInfo(distro_type, base, package_manager, supports_aur) ==
    [distro_type |-> distro_type, base |-> base, package_manager |-> package_manager,
     supports_aur |-> supports_aur]

NoDistro == DistroInfo("none", "", "", FALSE)

\* the first element of seq that satisfies Test, "" when there is none
FirstThat(seq, Test(_)) ==
    LET hits == {i \in 1..Len(seq) : Test(seq[i])}
    IN IF hits = {} THEN "" ELSE seq[CHOOSE i \in hits : \A j \in hits : i <= j]

\* utils PackageManager._command_exists: True unless subprocess.run raises
CommandExists(which, command) == which[command] # "raises"

\* utils PackageManager._parse_os_release
ParseOsRelease(os) ==
    CASE os = "manjaro" -> DistroInfo("manjaro", "arch", "pacman", TRUE)
      [] os = "ubuntu" -> DistroInfo("ubuntu", "debian", "apt", FALSE)
      [] OTHER -> DistroInfo("unknown", "", "", FALSE)

\* utils PackageManager._detect_via_package_manager
DetectViaPackageManager(which) ==
    LET Exists(cmd) == CommandExists(which, cmd)
        cmd == FirstThat(<<"pacman", "apt", "dnf", "zypper">>, Exists)
    IN CASE cmd = "pacman" -> DistroInfo("unknown", "arch", "pacman", TRUE)
         [] cmd = "apt" -> DistroInfo("unknown", "debian", "apt", FALSE)
         [] cmd = "dnf" -> DistroInfo("unknown", "rhel", "dnf", FALSE)
         [] cmd = "zypper" -> DistroInfo("unknown", "suse", "zypper", FALSE)
         [] OTHER -> NoDistro

\* utils PackageManager._detect_distribution
DetectDistribution(os, which) ==
    LET parsed == IF os = "absent" THEN NoDistro ELSE ParseOsRelease(os)
        distro_info == IF parsed = NoDistro \/ parsed.distro_type = "unknown"
                       THEN DetectViaPackageManager(which)
                       ELSE parsed
    IN IF distro_info = NoDistro
       THEN DistroInfo("unknown", "", "auto", FALSE)
       ELSE distro_info

\* utils PackageManager._init_managers: the keys of self._managers, in the
\* order they are inserted
InitManagers(distro_info, which) ==
    (IF CommandExists(which, "flatpak") THEN <<"flatpak">> ELSE <<>>)
    \o (IF CommandExists(which, "snap") THEN <<"snap">> ELSE <<>>)
    \o (IF /\ distro_info.supports_aur
           /\ \/ CommandExists(which, "paru")
              \/ CommandExists(which, "yay")
              \/ CommandExists(which, "pamac")
        THEN <<"aur">> ELSE <<>>)
    \o <<"native">>
    \o (IF CommandExists(which, "distrobox") THEN <<"distrobox">> ELSE <<>>)

\* NativeManager._detect_package_manager.  The candidates after zypper (apk,
\* xbps-install) have, like zypper, no branch in get_installed and
\* get_available.
NativeDetectPackageManager(which) ==
    LET Found(pm) == which[pm] = "zero"
        pm == FirstThat(<<"pamac", "pacman", "apt", "dnf", "zypper">>, Found)
    IN IF pm = "" THEN "unknown" ELSE pm

\* NativeManager.get_apps queries a tool only for these
NativeQueries(package_manager) == package_manager \in {"pamac", "pacman", "apt", "dnf"}

\* UnifiedAppFetcher._detect_sources and get_available_sources: the sources
\* whose flag is True, in the order of the dict
DetectSources(which) ==
    (IF which["flatpak"] = "zero" THEN <<"flatpak">> ELSE <<>>)
    \o (IF which["snap"] = "zero" THEN <<"snap">> ELSE <<>>)
    \o (IF \E helper \in {"paru", "yay", "pamac"} : which[helper] = "zero"
        THEN <<"aur">> ELSE <<>>)
    \o (IF \E pm \in {"pamac", "pacman", "apt", "dnf"} : which[pm] = "zero"
        THEN <<"native">> ELSE <<>>)
    \o (IF which["distrobox"] = "zero" THEN <<"distrobox">> ELSE <<>>)

\* AURManager.HELPERS
HELPERS == <<"paru", "yay", "pamac", "pacman">>

\* AURManager._detect_helper ("" for None)
DetectHelper(which) ==
    LET Found(helper) == which[helper] = "zero"
    IN FirstThat(HELPERS, Found)

AurHelpers == <<"paru", "yay", "pamac">>

NativeTools == <<"pamac", "pacman", "apt", "dnf">>

\* InstallationManager._install_aur, "Find AUR helper": the first h whose
\* `which` does not raise ("" for None)
InstallAurHelper(which) ==
    LET Ran(h) == which[h] # "raises"
    IN FirstThat(AurHelpers, Ran)

\* managers PackageManager._install_package, source aur / native: the first
\* candidate for which neither `which` nor the install command raises.  The
\* install command of a tool that is not on the PATH raises
\* FileNotFoundError; that of a tool that is there raises when it times out.
RunOutcomes == {"returns", "raises"}

InstallPackageTool(candidates, which, run) ==
    LET Ran(c) == which[c] # "raises" /\ run[c] = "returns"
    IN FirstThat(candidates, Ran)

\* no probe was made yet
DInit ==
    /\ dOp = "none"
    /\ dOsRelease = "absent"
    /\ dWhich = [c \in Commands |-> "raises"]
    /\ dRun = [c \in Commands |-> "raises"]
    /\ dDistro = NoDistro
    /\ dSources = <<>>
    /\ dTool = ""
    /\ dMessage = ""

\* hosts on which only the commands of a candidate list can answer
Hosts(cmds) == {which \in [Commands -> ProbeOutcomes] :
                    \A c \in Commands \ cmds : which[c] = "raises"}

Runs(cmds) == {run \in [Commands -> RunOutcomes] :
                    \A c \in Commands \ cmds : run[c] = "raises"}

\* PackageManager() of utils/package_manager (1).py, on any host
DPackageManager ==
    /\ dOp = "none"
    /\ \E os \in OsReleases, which \in [Commands -> ProbeOutcomes] :
        /\ dOp' = "PackageManager"
        /\ dOsRelease' = os
        /\ dWhich' = which
        /\ dDistro' = DetectDistribution(os, which)
        /\ dSources' = InitManagers(DetectDistribution(os, which), which)
        /\ dTool' = NativeDetectPackageManager(which)
    /\ UNCHANGED <<dRun, dMessage, notD>>

\* UnifiedAppFetcher(), on any host
DUnifiedAppFetcher ==
    /\ dOp = "none"
    /\ \E which \in [Commands -> ProbeOutcomes] :
        /\ dOp' = "UnifiedAppFetcher"
        /\ dWhich' = which
        /\ dSources' = DetectSources(which)
    /\ UNCHANGED <<dOsRelease, dRun, dDistro, dTool, dMessage, notD>>

\* AURManager(), on any host
DAURManager ==
    /\ dOp = "none"
    /\ \E which \in Hosts({"paru", "yay", "pamac", "pacman"}) :
        /\ dOp' = "AURManager"
        /\ dWhich' = which
        /\ dTool' = DetectHelper(which)
        /\ dMessage' = IF DetectHelper(which) = "" THEN "not available" ELSE ""
    /\ UNCHANGED <<dOsRelease, dRun, dDistro, dSources, notD>>

\* InstallationManager._install_aur up to its choice of a helper, on any host
DInstallAur ==
    /\ dOp = "none"
    /\ \E which \in Hosts({"paru", "yay", "pamac"}) :
        /\ dOp' = "_install_aur"
        /\ dWhich' = which
        /\ dTool' = InstallAurHelper(which)
        /\ dMessage' = IF InstallAurHelper(which) = "" THEN "No AUR helper found" ELSE ""
    /\ UNCHANGED <<dOsRelease, dRun, dDistro, dSources, notD>>

\* managers PackageManager._install_package(pkg_id, source) for aur and
\* native, on any host
DInstallPackage ==
    /\ dOp = "none"
    /\ \E source \in {"aur", "native"},
          which \in Hosts({"paru", "yay", "pamac", "pacman", "apt", "dnf"}),
          run \in Runs({"paru", "yay", "pamac", "pacman", "apt", "dnf"}) :
        LET candidates == IF source = "aur" THEN AurHelpers ELSE NativeTools
            tool == InstallPackageTool(candidates, which, run)
        IN /\ \A c \in Commands : which[c] = "nonzero" => run[c] = "raises"
           /\ dOp' = "_install_package"
           /\ dWhich' = which
           /\ dRun' = run
           /\ dTool' = tool
           /\ dMessage' = IF tool # "" THEN ""
                          ELSE IF source = "aur" THEN "No AUR helper available"
                          ELSE "No package manager available"
           /\ dSources' = <<source>>
    /\ UNCHANGED <<dOsRelease, dDistro, notD>>

DNext ==
    \/ DPackageManager
    \/ DUnifiedAppFetcher
    \/ DAURManager
    \/ DInstallAur
    \/ DInstallPackage

(***************************************************************************)
(* search_apps of both PackageManager classes, as functions of the query.   *)
(* Strings are sequences of characters.  POPULAR_APPS is cut down to its    *)
(* first two entries with their summaries shortened, the merged catalog to  *)
(* three records, and the live searches of the fetcher list nothing.        *)
(***************************************************************************)
UpperCase == <<"A", "B", "C", "D", "E", "F", "G", "H", "I", "J", "K", "L", "M",
               "N", "O", "P", "Q", "R", "S", "T", "U", "V", "W", "X", "Y", "Z">>

LowerCase == <<"a", "b", "c", "d", "e", "f", "g", "h", "i", "j", "k", "l", "m",
               "n", "o", "p", "q", "r", "s", "t", "u", "v", "w", "x", "y", "z">>

\* str.lower()
StrLower(str) ==
    [i \in 1..Len(str) |->
        IF \E k \in 1..Len(UpperCase) : UpperCase[k] = str[i]
        THEN LowerCase[CHOOSE k \in 1..Len(UpperCase) : UpperCase[k] = str[i]]
        ELSE str[i]]

\* needle in hay
In(needle, hay) ==
    \E i \in 0..(Len(hay) - Len(needle)) : SubSeq(hay, i + 1, i + Len(needle)) = needle

\* the characters the queries are made of, and the queries
QueryChars == {"f", "F", "i", "I", "e", "E", "c", "C", "-", " "}

SearchQueries == UNION {[1..n -> QueryChars] : n \in 0..MaxQueryLen}

\* AppInfo(id, name, summary, description, source)
SearchRecord(id, name, summary, description, source) ==
    [id |-> id, name |-> name, summary |-> summary, description |-> description,
     source |-> source]

\* what get_all_apps() returns to search_apps: a merged catalog
SearchCatalog ==
    << SearchRecord("org.mozilla.firefox", <<"F", "i", "r", "e", "f", "o", "x">>,
                    <<"W", "e", "b">>, <<"F", "a", "s", "t">>, "flatpak"),
       SearchRecord("com.google.Chrome",
                    <<"G", "o", "o", "g", "l", "e", " ", "C", "h", "r", "o", "m", "e">>,
                    <<"W", "e", "b">>, <<>>, "flatpak"),
       SearchRecord("firefox", <<"F", "i", "r", "e", "f", "o", "x">>,
                    <<"N", "a", "t", "i", "v", "e", " ", "p", "a", "c", "k", "a", "g", "e">>,
                    <<>>, "native") >>

\* the sources argument of search_apps: <<>> for None
SourceFilters == {<<>>, <<"flatpak">>, <<"native">>}

\* utils PackageManager.search_apps(query, sources) over a catalog
SearchApps(catalog, query, sources) ==
    LET query_lower == StrLower(query)
        Matches(app) ==
            /\ ~(sources # <<>> /\ app.source \notin Range(sources))
            /\ \/ In(query_lower, StrLower(app.name))
               \/ In(query_lower, StrLower(app.summary))
               \/ In(query_lower, StrLower(app.description))
    IN SelectSeq(catalog, Matches)

\* POPULAR_APPS: key, name, summary
PopularApps ==
    << [key |-> <<"f", "i", "r", "e", "f", "o", "x">>,
        name |-> <<"F", "i", "r", "e", "f", "o", "x">>,
        summary |-> <<"w", "e", "b">>,
        app_key |-> "firefox"],
       [key |-> <<"g", "o", "o", "g", "l", "e", "-", "c", "h", "r", "o", "m", "e">>,
        name |-> <<"G", "o", "o", "g", "l", "e", " ", "C", "h", "r", "o", "m", "e">>,
        summary |-> <<"w", "e", "b">>,
        app_key |-> "google-chrome"] >>

\* search_popular_apps(query) over the strings themselves
SearchPopular(query) ==
    LET query_lower == StrLower(query)
        Matches(info) ==
            \/ In(query_lower, info.key)
            \/ In(query_lower, StrLower(info.name))
            \/ In(query_lower, StrLower(info.summary))
    IN SelectSeq(PopularApps, Matches)

\* the records UnifiedAppFetcher builds for one popular app: one per
\* available source that has a package id
RECURSIVE PopularRecords(_, _)
PopularRecords(info, i) ==
    IF i > Len(FetcherSources) THEN <<>>
    ELSE LET pkg_id == PackageId(info.app_key, FetcherSources[i])
         IN (IF pkg_id = "None" THEN <<>>
             ELSE <<SearchRecord(pkg_id, info.name, info.summary, <<>>, FetcherSources[i])>>)
            \o PopularRecords(info, i + 1)

RECURSIVE AllPopularRecords(_)
AllPopularRecords(infos) ==
    IF infos = <<>> THEN <<>>
    ELSE PopularRecords(Head(infos), 1) \o AllPopularRecords(Tail(infos))

\* UnifiedAppFetcher.search(query) when _search_live finds nothing: what
\* managers PackageManager.search_apps(query) returns
FetcherSearch(query) == AllPopularRecords(SearchPopular(query))

SInit ==
    /\ sOp = "none"
    /\ sQuery = <<>>
    /\ sSources = <<>>
    /\ sResult = <<>>

\* search_apps(query, sources) of utils/package_manager (1).py
SSearchApps ==
    /\ sOp = "none"
    /\ \E query \in SearchQueries, sources \in SourceFilters :
        /\ sOp' = "utils"
        /\ sQuery' = query
        /\ sSources' = sources
        /\ sResult' = SearchApps(SearchCatalog, query, sources)
    /\ UNCHANGED notS

\* search_apps(query) of managers/package_manager.py
SFetcherSearch ==
    /\ sOp = "none"
    /\ \E query \in SearchQueries :
        /\ sOp' = "managers"
        /\ sQuery' = query
        /\ sResult' = FetcherSearch(query)
    /\ UNCHANGED <<sSources, notS>>

SNext == SSearchApps \/ SFetcherSearch

(***************************************************************************)
(* utils/cache.py : concurrent AppCache.set calls and the threads they start *)
(* to persist the cache.  set changes self._cache under self._lock and then  *)
(* starts a daemon thread running _save_persistent_cache, which takes no     *)
(* lock: it loops over self._cache, opens the cache file for writing and     *)
(* dumps what it collected.  The cache directory is writable and every value *)
(* is JSON-serializable.                                                     *)
(***************************************************************************)
SaveThreads == 1..MaxSaveSets

\* the cache file: exists, len (the length of its text), json (it parses),
\* data (what json.load gives when it parses)
AbsentFile == [exists |-> FALSE, len |-> 0, json |-> FALSE, data |-> EmptyDict]

\* open(cache_path, 'w'): the file exists and is empty
TruncatedFile == [exists |-> TRUE, len |-> 0, json |-> FALSE, data |-> EmptyDict]

\* The length of the text json.dump(data, f, indent=2) writes, counted in
\* entries: the data strings and the times of the model have one length each,
\* and two dicts collected by loops over one growing self._cache have the same
\* number of entries only when they have the same keys.
TextLen(data) == Cardinality(DOMAIN data)

\* The text of `data` written at offset 0 of the file by the close of a
\* thread's own file object (the text is smaller than the buffer of the file
\* object, so it reaches the file in one write).  Over a longer text left by
\* another thread, the end of that text stays after the new one and the file
\* does not parse.
WriteAtStart(file, data) ==
    IF TextLen(data) >= file.len
    THEN [exists |-> TRUE, len |-> TextLen(data), json |-> TRUE, data |-> data]
    ELSE [exists |-> TRUE, len |-> file.len, json |-> FALSE, data |-> EmptyDict]

WInit ==
    /\ wCache = EmptyDict
    /\ wOrder = <<>>
    /\ wFile = AbsentFile
    /\ wNow = 0
    /\ wSets = 0
    /\ wPc = [t \in SaveThreads |-> "idle"]
    /\ wSize = [t \in SaveThreads |-> 0]
    /\ wData = [t \in SaveThreads |-> EmptyDict]

\* set(key, data, ttl): the entry is stored under the lock, then the thread
\* of this call is started
WSet(key, data, arg) ==
    /\ wSets < MaxSaveSets
    /\ wSets' = wSets + 1
    /\ wCache' = Put(wCache, key, CacheEntry(key, data, wNow, wNow + TtlOr(arg)))
    /\ wOrder' = IF key \in DOMAIN wCache THEN wOrder ELSE Append(wOrder, key)
    /\ wPc' = [wPc EXCEPT ![wSets + 1] = "start"]
    /\ UNCHANGED <<wFile, wNow, wSize, wData, notW>>

\* _save_persistent_cache: data = {} and `for key, entry in
\* self._cache.items()` begins; the loop remembers the size of the dict
WSaveStart(t) ==
    /\ wPc[t] = "start"
    /\ wSize' = [wSize EXCEPT ![t] = Cardinality(DOMAIN wCache)]
    /\ wData' = [wData EXCEPT ![t] = EmptyDict]
    /\ wPc' = [wPc EXCEPT ![t] = "iter"]
    /\ UNCHANGED <<wCache, wOrder, wFile, wNow, wSets, notW>>

\* One step of the loop.  When the dict changed size since the loop began
\* the step raises RuntimeError, `except Exception` prints the warning and the
\* thread ends with the file untouched; at the end of the dict the loop is
\* over; else the next entry is copied into data.
WSaveNext(t) ==
    /\ wPc[t] = "iter"
    /\ IF Cardinality(DOMAIN wCache) # wSize[t]
       THEN /\ wPc' = [wPc EXCEPT ![t] = "done"]
            /\ UNCHANGED wData
       ELSE IF Cardinality(DOMAIN wData[t]) = Len(wOrder)
       THEN /\ wPc' = [wPc EXCEPT ![t] = "open"]
            /\ UNCHANGED wData
       ELSE /\ wData' = [wData EXCEPT ![t] =
                            Put(@, wOrder[Cardinality(DOMAIN @) + 1],
                                wCache[wOrder[Cardinality(DOMAIN @) + 1]])]
            /\ UNCHANGED wPc
    /\ UNCHANGED <<wCache, wOrder, wFile, wNow, wSets, wSize, notW>>

\* with open(cache_path, 'w') as f: the file is truncated
WSaveOpen(t) ==
    /\ wPc[t] = "open"
    /\ wFile' = TruncatedFile
    /\ wPc' = [wPc EXCEPT ![t] = "write"]
    /\ UNCHANGED <<wCache, wOrder, wNow, wSets, wSize, wData, notW>>

\* json.dump(data, f, indent=2) and the close of f
WSaveDump(t) ==
    /\ wPc[t] = "write"
    /\ wFile' = WriteAtStart(wFile, wData[t])
    /\ wPc' = [wPc EXCEPT ![t] = "done"]
    /\ UNCHANGED <<wCache, wOrder, wNow, wSets, wSize, wData, notW>>

\* a second passes
WTick ==
    /\ wNow < MaxSaveTime
    /\ wNow' = wNow + 1
    /\ UNCHANGED <<wCache, wOrder, wFile, wSets, wPc, wSize, wData, notW>>

WNext ==
    \/ \E key \in CacheKeys, data \in CacheValues, arg \in TtlArgs : WSet(key, data, arg)
    \/ \E t \in SaveThreads : WSaveStart(t)
    \/ \E t \in SaveThreads : WSaveNext(t)
    \/ \E t \in SaveThreads : WSaveOpen(t)
    \/ \E t \in SaveThreads : WSaveDump(t)
    \/ WTick

(***************************************************************************)
(* Specifications.                                                          *)
(***************************************************************************)
HInit ==
    /\ host = {}
    /\ hostChanges = 0

Init == UInit /\ EInit /\ AInit /\ MInit /\ HInit /\ PInit /\ IInit /\ RInit /\ QInit /\ CInit /\ DInit /\ SInit /\ WInit

\* utils/package_manager (1).py
SpecCatalog == Init /\ [][UNext]_vars

\* utils/package_manager (1).py over backends that can fail
SpecCatalogFaults == Init /\ [][UFaultyNext]_vars

\* utils/package_manager (1).py, all its operations
SpecCatalogOps == Init /\ [][UOpsNext]_vars

\* managers/package_manager.py with data/app_fetcher.py
SpecFetcher == Init /\ [][MNext]_vars

\* install_app, uninstall_app and update_app of both PackageManager classes,
\* on records obtained through get_all_apps (utils) and search_apps (managers)
AppOpsNext == UGetAllNext \/ ANext \/ PNext

SpecAppOps == Init /\ [][AppOpsNext]_vars

\* managers/package_manager.py, all its operations
SpecFetcherOps == Init /\ [][MOpsNext]_vars

\* managers/installation_manager.py
SpecInstall == Init /\ [][INext]_vars

\* The same, with the _install threads scheduled fairly: a thread that can
\* take a step eventually takes one.  The child process and the callers of
\* install_package and cancel are under no obligation.
FairSpecInstall == SpecInstall /\ \A t \in ITasks : WF_vars(IThread(t))

\* managers/installation_manager.py : uninstall_package
SpecUninstall == Init /\ [][UninstallNext]_vars

\* utils/async_utils.py : AsyncRunner
SpecRunner == Init /\ [][RNext]_vars

\* utils/async_utils.py : TaskQueue, add() calls only
SpecQueueAdd == Init /\ [][QAddNext]_vars

\* utils/async_utils.py : TaskQueue, add(), pause() and resume()
SpecQueue == Init /\ [][QNext]_vars

\* utils/cache.py : AppCache
SpecCache == Init /\ [][CNext]_vars

\* the constructors and helper loops that probe the host
SpecDetect == Init /\ [][DNext]_vars

\* search_apps of both PackageManager classes
SpecSearch == Init /\ [][SNext]_vars

\* AppCache.set calls and the steps of their persistence threads
SpecCacheSave == Init /\ [][WNext]_vars

Spec == SpecCatalog

(***************************************************************************)
(* Position of a call in a sequence of calls (0 when absent).               *)
(***************************************************************************)
PosIn(seq, c) == IF \E i \in 1..Len(seq) : seq[i] = c
                 THEN CHOOSE i \in 1..Len(seq) : seq[i] = c
                 ELSE 0

UQuiescent == \A c \in UCalls : uPc[c] \in {"idle", "done"}

\* C1: after any sequence of refresh_cache and get_all_apps calls on one
\* PackageManager, overlapping ones included, once the calls have finished
\* the catalog list holds no two records with the same (id, source) pair.
C1_CatalogFingerprintsUnique ==
    UQuiescent => NoDuplicateFingerprints(uCache)

\* C2: the ordered catalog produced by one refresh_cache pass (run alone, no
\* other call on the PackageManager) is the same for every order in which
\* the per-backend get_apps futures complete: it is the merge in the fixed
\* order of self._managers, the result of the in-order completion.
C2_MergeOrderDeterministic ==
    \A c \in UCalls :
        (/\ uKind[c] = "refresh" /\ uPc[c] = "done"
         /\ \A d \in UCalls \ {c} : uPc[d] = "idle")
        => uCache = MergeInOrder(Managers)

\* C3: when refresh_cache call a was started before call b and b assigned its
\* result to the catalog first, then once both have finished the catalog
\* holds b's result.
C3_StaleRefreshNeverOverwrites ==
    \A a, b \in MCalls :
        (/\ a # b
         /\ mKind[a] = "refresh" /\ mKind[b] = "refresh"
         /\ mPc[a] = "done" /\ mPc[b] = "done"
         /\ PosIn(mStarted, a) < PosIn(mStarted, b)
         /\ PosIn(mPublished, b) < PosIn(mPublished, a))
        => mCache = mApps[b]

\* C4: when cancel() is called after the task was accepted and before its
\* child process has exited, the task never emits a COMPLETED progress event
\* and never calls its completion callback with success = true.
C4_CancelledNeverCompletes ==
    \A t \in ITasks :
        iCancelled[t] =>
            /\ \A i \in 1..Len(iEvents[t]) : iEvents[t][i].status # "completed"
            /\ \A i \in 1..Len(iDone[t]) : iDone[t][i][1] = FALSE

\* C5: whenever cancel() is called while the child process of a task is
\* running, the child eventually stops running (the pipeline terminates it),
\* whatever the process writes afterwards, nothing included.
C5_CancelTerminatesChild ==
    \A t \in ITasks : iCancelledRunning[t] ~> (iProc[t] # "running")

\* C6: an install task cancelled before its process exits ends in the stage
\* CANCELLED: the last stage it reports through the progress callback is
\* InstallStatus.CANCELLED.
C6_CancelledEndsCancelled ==
    \A t \in ITasks :
        (iCancelled[t] /\ iPc[t] = "done") =>
            /\ iEvents[t] # <<>>
            /\ iEvents[t][Len(iEvents[t])].status = "cancelled"

\* C7: at no time do two child processes run for the same (id, source)
\* fingerprint, and no child process is ever started for a fingerprint that
\* is installed already.
C7_OneInstallPerFingerprint ==
    /\ \A t, o \in ITasks :
            (iProc[t] = "running" /\ iProc[o] = "running" /\ iFp[t] = iFp[o]) => t = o
    /\ \A t \in ITasks : ~iSpawnedInstalled[t]

\* C8: every task submitted to AsyncRunner.submit with a callback has the
\* callback invoked exactly once, after the task function returned or raised,
\* with (True, result) or (False, error text): never twice, never before the
\* function ended, and once the task's future is over (finished, cancelled or
\* refused by the executor) the callback has been invoked.
C8_RunnerCallbackExactlyOnce ==
    \A t \in RTasks :
        /\ Len(rCallbacks[t]) <= 1
        /\ Len(rCallbacks[t]) = 1 =>
                /\ rOutcome[t] # "none"
                /\ rCallbacks[t][1] = IF rOutcome[t] = "returned"
                                      THEN <<TRUE, "result">> ELSE <<FALSE, "error">>
        /\ rFuture[t] \in {"finished", "cancelled", "rejected"} => Len(rCallbacks[t]) = 1

\* no thread of the TaskQueue or of its callers has a step left to take
QQuiescent ==
    /\ \A k \in QCallers : qCallerPc[k] = "idle"
    /\ \A w \in QWorkers : qWorkerPc[w] \in {"unborn", "dead"}

\* C9: with add() calls only, every task added to a TaskQueue is executed and
\* its callback fires exactly once: never more than once, and when every
\* thread has run as far as it can, every added task has had its callback.
C9_QueueRunsEveryTask ==
    /\ \A t \in QTasks : qCallbacks[t] <= 1
    /\ QQuiescent => \A t \in 1..qAdded : qCallbacks[t] = 1

\* C10: at every moment at most one task of a TaskQueue is executing.
C10_QueueRunsOneAtATime ==
    Cardinality({w \in QWorkers : qWorkerPc[w] = "run"}) <= 1

\* status of the last progress event of task t ("none" without events)
LastStatus(t) ==
    IF iEvents[t] = <<>> THEN "none" ELSE iEvents[t][Len(iEvents[t])].status

\* C11: a finished install or uninstall task has reported COMPLETED or called
\* its completion callback with success = true only if its child process
\* exited with code zero; when the process exited non-zero the task's last
\* event is FAILED and the completion callback got (False, tail of the output,
\* at most MessageTail characters); when an exception occurred the last event
\* is FAILED and the completion callback got (False, exception text).
C11_ExitCodeDecidesOutcome ==
    \A t \in ITasks :
        iPc[t] = "done" =>
            /\ ((\E i \in 1..Len(iEvents[t]) : iEvents[t][i].status = "completed")
                    \/ (\E i \in 1..Len(iDone[t]) : iDone[t][i][1]))
                => (iProc[t] = "exited" /\ iExit[t] = 0)
            /\ (iProc[t] = "exited" /\ iExit[t] # 0)
                => /\ LastStatus(t) = "failed"
                   /\ Len(iDone[t]) = 1
                   /\ iDone[t][1][1] = FALSE /\ iDone[t][1][2] = "output"
                   /\ Len(iDone[t][1]) = 3 => iDone[t][1][3] <= MessageTail
            /\ (iRet[t][2] = "exception")
                => /\ LastStatus(t) = "failed"
                   /\ iDone[t] = << <<FALSE, "exception">> >>

\* C12: within one install task the percentages of successive progress events
\* never decrease, from the PREPARING event to the terminal event included.
C12_PercentageNeverDecreases ==
    \A t \in ITasks :
        \A i, j \in 1..Len(iEvents[t]) :
            i < j => iEvents[t][i].percentage <= iEvents[t][j].percentage

\* position of a stage along Preparing, Downloading, Installing, terminal
StageRank(status) ==
    IF status = "preparing" THEN 0
    ELSE IF status = "downloading" THEN 1
    ELSE IF status = "installing" THEN 2
    ELSE 3

\* C13: the stages reported by one install task only move forward along
\* Preparing, Downloading, Installing, terminal: no event reports a stage that
\* lies before the stage of an earlier event of the task.
C13_StagesOnlyMoveForward ==
    \A t \in ITasks :
        \A i, j \in 1..Len(iEvents[t]) :
            i < j => StageRank(iEvents[t][i].status) <= StageRank(iEvents[t][j].status)

\* every record of `list` agrees with the last successful operation on its
\* fingerprint: installed after an install, not installed after an uninstall
FlagsFollowLastOp(list, lastOp) ==
    \A i \in 1..Len(list) :
        /\ lastOp[Fingerprint(list[i])] = "installed" => list[i].installed
        /\ lastOp[Fingerprint(list[i])] = "uninstalled" => ~list[i].installed

\* C14: every list get_all_apps or search_apps returns carries, for each
\* fingerprint whose last successful operation was an install, installed =
\* true, and for each whose last successful operation was an uninstall,
\* installed = false.
C14_ReturnedFlagsFollowLastOp ==
    [][/\ \A c \in MCalls :
            (mKind'[c] = "getall" /\ mPc[c] # "done" /\ mPc'[c] = "done")
                => FlagsFollowLastOp(mCache', mLastOp')
       /\ (pSearches' = pSearches + 1) => FlagsFollowLastOp(mSearchResult', mLastOp')]_vars

\* the texts a failed operation hands to its callback
Diagnostics == {"output", "error", "not available"}

\* C15: an install_app, uninstall_app or update_app call that ends in failure
\* (the backend returned ok = false, raised, or the source has no manager)
\* never changes the flags of its target record, its last step leaves the
\* catalog list and its validity as they were, and that step calls the
\* callback with (False, diagnostic text); on both PackageManager classes.
C15_FailureChangesNothing ==
    [][/\ \A o \in AOps :
            /\ (aPc[o] # "idle" /\ ~aResult'[o][1]) => aApp'[o] = aApp[o]
            /\ (aPc[o] # "done" /\ aPc'[o] = "done" /\ ~aResult[o][1])
                => /\ uCache' = uCache /\ uCacheValid' = uCacheValid
                   /\ \E text \in Diagnostics :
                          aCallbacks'[o] = Append(aCallbacks[o], <<FALSE, text>>)
       /\ \A o \in POps :
            /\ (pPc[o] # "idle" /\ ~pResult'[o][1]) => pApp'[o] = pApp[o]
            /\ (pPc[o] # "done" /\ pPc'[o] = "done" /\ ~pResult[o][1])
                => /\ mCache' = mCache /\ mCacheValid' = mCacheValid
                   /\ \E text \in Diagnostics :
                          pCallbacks'[o] = Append(pCallbacks[o], <<FALSE, text>>)]_vars

\* an operation on a catalog record has failed on the one PackageManager, and
\* an operation has failed on the other
C15_Witness ==
    /\ \E o \in AOps : /\ aPc[o] = "done" /\ ~aResult[o][1]
                        /\ aRef[o].pos > 0 /\ Len(aCallbacks[o]) = 1
    /\ \E o \in POps : pPc[o] = "done" /\ ~pResult[o][1] /\ Len(pCallbacks[o]) = 1

\* the records of the backends that succeeded in call c
SucceededRecords(c) ==
    UNION {Range(GetApps(source)) : source \in ManagerSet \ uFailed[c]}

\* call c has run a merge to its end
MergeDone(c) == uPc[c] = "done" /\ (uKind[c] = "refresh" \/ uIdx[c] > 0)

MMergeDone(c) == mPc[c] = "done" /\ (mKind[c] = "refresh" \/ mKeyIdx[c] > 0)

\* C17: a get_all_apps call made when some merge has completed on the
\* PackageManager returns at once, without entering the synchronous rebuild
\* that queries the backends, whatever operations happened in between.
C17_GetAllRebuildsOnlyBeforeFirstMerge ==
    [][/\ \A c \in UCalls :
            (uPc[c] = "idle" /\ uPc'[c] # "idle" /\ uKind'[c] = "getall"
                /\ \E d \in UCalls : MergeDone(d))
            => uPc'[c] = "done"
       /\ \A c \in MCalls :
            (mPc[c] = "idle" /\ mPc'[c] # "idle" /\ mKind'[c] = "getall"
                /\ \E d \in MCalls : MMergeDone(d))
            => mPc'[c] = "done"]_vars

\* the orders in which the backends of self._managers can be merged
ManagerOrders ==
    {order \in [1..Len(Managers) -> ManagerSet] : Range(order) = ManagerSet}

\* the catalogs a merge that ran alone to its end can produce
CompleteMerges == {MergeInOrder(order) : order \in ManagerOrders}

\* C18: every list a get_all_apps call returns is the complete result of a
\* finished merge, never a list that was just reset or is partially merged,
\* and at no time are two calls in the middle of rebuilding the catalog.
C18_ReadersSeeCompleteMerges ==
    [][/\ \A c \in UCalls :
            (uKind'[c] = "getall" /\ uPc[c] # "done" /\ uPc'[c] = "done")
            => uCache' \in CompleteMerges
       /\ Cardinality({c \in UCalls : uPc'[c] = "merge"}) <= 1]_vars

\* the step is a call of get(key) that returns
GetReturns(key) == cCalls' = cCalls + 1 /\ cCall'.op = "get" /\ cCall'.key = key

\* the lifetime the caller of a set asked for: the ttl it passed, the
\* default lifetime when it passed none
AskedTtl(call) == IF call.ttl = <<>> THEN DefaultTtl ELSE call.ttl[1]

\* C19: for every key, data and ttl, a get(key) that comes after a
\* set(key, data, ttl) with no delete or clear of that key in between, and
\* before the ttl has elapsed since that set, returns data, whatever calls on
\* other keys came in between.
C19_GetReturnsWhatWasSet ==
    [][\A key \in CacheKeys :
          (/\ GetReturns(key)
           /\ cLastSet[key] # <<>>
           /\ cNow < cLastSet[key][1].at + AskedTtl(cLastSet[key][1]))
          => cCall'.ret = cLastSet[key][1].data]_vars

\* a get returned the data of a set made a second earlier, after a set of
\* the other key that came in between
C19_Witness ==
    /\ cCall.op = "get"
    /\ cCall.ret # None
    /\ cLastSet[cCall.key] # <<>>
    /\ cLastSet[cCall.key][1].at < cNow
    /\ cCall.ret = cLastSet[cCall.key][1].data
    /\ \E other \in CacheKeys \ {cCall.key} :
          /\ other \in DOMAIN cCache
          /\ cCache[other].created >= cLastSet[cCall.key][1].at

\* the step is the construction of an AppCache over the cache directory
Constructs == cConstructions' = cConstructions + 1

\* C20: for every key and every ttl passed to set, a get(key) made once the
\* clock is past the moment of that set plus that ttl returns absent and
\* leaves no entry for the key in the map; construction loads no entry of
\* the persisted file whose expiry time has passed; and no get returns the
\* data of an entry whose expiry time has passed.
C20_ExpiredEntriesAreAbsent ==
    [][/\ \A key \in CacheKeys :
            (/\ GetReturns(key)
             /\ cLastSet[key] # <<>>
             /\ cLastSet[key][1].ttl # <<>>
             /\ cNow > cLastSet[key][1].at + cLastSet[key][1].ttl[1])
            => (cCall'.ret = None /\ key \notin DOMAIN cCache')
       /\ Constructs =>
            \A key \in DOMAIN cFile.data :
                cNow > cFile.data[key].expires => key \notin DOMAIN cCache'
       /\ \A key \in CacheKeys :
            (GetReturns(key) /\ cCall'.ret # None)
            => (key \in DOMAIN cCache /\ ~(cNow > cCache[key].expires))]_vars

\* the commands whose probe decides that a source exists
ProbesOf(source) ==
    CASE source = "aur" -> {"paru", "yay", "pamac"}
      [] source = "native" -> {"pamac", "pacman", "apt", "dnf", "zypper"}
      [] OTHER -> {source}

\* C21: a backend is listed by get_available_sources only if an existence
\* probe of it ran and exited with status zero; a probe that raises, times
\* out or exits non-zero leaves the backend out.
C21_ListedOnlyIfProbeExitedZero ==
    dOp \in {"PackageManager", "UnifiedAppFetcher"}
    => \A source \in Range(dSources) : \E c \in ProbesOf(source) : dWhich[c] = "zero"

\* C22: when /etc/os-release is absent or names an unknown family and no
\* native package manager resolves, the profile has an unknown family and no
\* native tool, get_available_sources does not list native, and the native
\* backend queries no tool for records.
C22_NoNativeToolMeansNoNativeBackend ==
    (/\ dOp = "PackageManager"
     /\ dOsRelease \in {"absent", "other"}
     /\ \A c \in ProbesOf("native") : dWhich[c] # "zero")
    => /\ dDistro.distro_type = "unknown"
       /\ dDistro.base = ""
       /\ dDistro.package_manager \in {"", "auto"}
       /\ "native" \notin Range(dSources)
       /\ ~NativeQueries(dTool)

\* the candidate list of the operation that ran
CandidatesOf(op, sources) ==
    CASE op = "AURManager" -> HELPERS
      [] op = "_install_aur" -> AurHelpers
      [] op = "_install_package" /\ sources = <<"aur">> -> AurHelpers
      [] OTHER -> NativeTools

FirstExitedZero(candidates, which) ==
    LET Zero(c) == which[c] = "zero"
    IN FirstThat(candidates, Zero)

\* C25: wherever a helper or native tool is chosen from a candidate list,
\* the chosen one is the first candidate in list order whose existence check
\* exited with status zero, and when no check succeeded the operation
\* reports that none is available.
C25_FirstCandidateThatResolves ==
    dOp \in {"AURManager", "_install_aur", "_install_package"}
    => /\ dTool = FirstExitedZero(CandidatesOf(dOp, dSources), dWhich)
       /\ dTool = "" => dMessage # ""

\* the record contains the query, ignoring case, in its name, summary or
\* description
ContainsQuery(r, query) ==
    \/ In(StrLower(query), StrLower(r.name))
    \/ In(StrLower(query), StrLower(r.summary))
    \/ In(StrLower(query), StrLower(r.description))

\* the records search_apps chooses from
SearchedRecords ==
    IF sOp = "managers" THEN Range(AllPopularRecords(PopularApps))
    ELSE {r \in Range(SearchCatalog) : sSources = <<>> \/ r.source \in Range(sSources)}

\* search_apps of the class that ran, as a function of the query
SearchAgain(query) ==
    IF sOp = "managers" THEN FetcherSearch(query)
    ELSE SearchApps(SearchCatalog, query, sSources)

\* C23: search_apps returns the same records for two queries that differ only
\* in letter case, and the records it returns are exactly those whose name,
\* summary or description contains the query as a case-insensitive substring.
C23_SearchIsCaseInsensitiveAndExact ==
    sOp # "none"
    => /\ \A other \in SearchQueries :
            StrLower(other) = StrLower(sQuery) => SearchAgain(other) = sResult
       /\ Range(sResult) = {r \in SearchedRecords : ContainsQuery(r, sQuery)}

\* the step is a cancel_all() call that returns
CancelAllReturns == rTasks # <<>> /\ rTasks' = <<>> /\ rPc' = rPc

\* C24: cancel_all cancels every task that was submitted and has not
\* started, a cancelled task never starts running, and a task that is
\* running when cancel_all is called goes on as it was.
C24_CancelAllStopsPendingOnly ==
    [][/\ CancelAllReturns =>
            \A t \in RTasks :
                /\ rFuture[t] = "pending" => rFuture'[t] = "cancelled"
                /\ rFuture[t] = "running" =>
                        (rFuture'[t] = "running" /\ rOutcome'[t] = rOutcome[t])
       /\ \A t \in RTasks :
            rFuture[t] = "cancelled" =>
                (rFuture'[t] = "cancelled" /\ rPc'[t] = "none" /\ rCallbacks'[t] = <<>>)]_vars

\* cancel_all returned while one task was running and another was waiting:
\* the first has since run to its end, the second was dropped by the worker
C24_Witness ==
    \E t1, t2 \in RTasks :
        /\ rTasks = <<>>
        /\ rFuture[t1] = "finished" /\ rCallbacks[t1] # <<>>
        /\ rFuture[t2] = "cancelled" /\ rPc[t2] = "none"
        /\ t1 < t2
        /\ t2 \notin Range(rWorkQueue)

\* C26: once an install_package or uninstall_package call has returned to
\* its caller, the PREPARING event with percentage 0 has been delivered, and
\* it is the first progress event of the task.
C26_PreparingDeliveredBeforeReturn ==
    \A t \in ITasks :
        iPc[t] # "idle"
        => (iEvents[t] # <<>> /\ iEvents[t][1] = Progress("preparing", 0))

\* C27: an install_package or uninstall_package call given a completion
\* callback invokes it exactly once on every path: never more than once, and
\* once by the time its thread has ended.
C27_CompletionCallbackExactlyOnce ==
    \A t \in ITasks :
        /\ Len(iDone[t]) <= 1
        /\ iPc[t] = "done" => Len(iDone[t]) = 1

\* C28: a cancel request issued while the child process of an install is
\* running stays in effect until that install has left its pipeline: as long
\* as the cancelled task is still reading, the cancel flag of the manager is
\* set, whatever other install_package calls were made meanwhile.
C28_CancelStaysInEffect ==
    \A t \in ITasks :
        (iCancelledRunning[t] /\ iPc[t] = "read") => iCancelRequested

TerminalStatuses == {"completed", "failed", "cancelled"}

\* the positions of the terminal progress events of task t
TerminalEvents(t) ==
    {i \in 1..Len(iEvents[t]) : iEvents[t][i].status \in TerminalStatuses}

\* C29: a task never emits a progress event after a terminal one (COMPLETED,
\* FAILED or CANCELLED); when its completion callback is called it has
\* emitted exactly one terminal event, and that event is COMPLETED exactly
\* when the callback receives success = true.
C29_OneTerminalEventBeforeCompletion ==
    \A t \in ITasks :
        /\ TerminalEvents(t) \subseteq {Len(iEvents[t])}
        /\ iDone[t] # <<>> =>
              /\ TerminalEvents(t) = {Len(iEvents[t])}
              /\ iEvents[t] # <<>>
              /\ (iEvents[t][Len(iEvents[t])].status = "completed") = iDone[t][1][1]

\* C30: once set was called and every persistence thread has finished, the
\* cache file exists and parses, and for every key of the in-memory cache it
\* holds the value and the expiry of the entry in memory (the latest set of
\* that key).
C30_PersistedFileMatchesMemory ==
    (wSets > 0 /\ \A t \in SaveThreads : wPc[t] \in {"idle", "done"})
    => /\ wFile.exists
       /\ wFile.json
       /\ \A k \in DOMAIN wCache :
             /\ k \in DOMAIN wFile.data
             /\ wFile.data[k].data = wCache[k].data
             /\ wFile.data[k].expires = wCache[k].expires

=============================================================================
